---- MODULE Spec2Model ----
(***************************************************************************)
(* A model of the flexymarketstracking backend: the document collections   *)
(* (users, posts, follows, comments, notifications, device tokens,         *)
(* sessions, screen activities) and the request handlers that read and     *)
(* write them.  Each subsystem has its own specification over the shared   *)
(* variables; a handler is one action unless its await points matter, in   *)
(* which case every await point is its own step.                           *)
(***************************************************************************)
EXTENDS Integers, Sequences, FiniteSets, TLC

VARIABLES
    users,        \* User collection: id -> document or NoDoc
    loginHistory, \* LoginHistory collection: sequence of user ids
    userSchema,   \* which of the two User schemas of the repository is loaded
    awaiting,     \* startSession and followUser requests between two awaits
    likeReqs,     \* likePost requests between their findById and their save
    voiceCalls,   \* VoiceCall collection: sequence of documents
    regReqs,      \* requests that create a User, between their await points
    posts,        \* Post collection: id -> document or NoDoc
    nextPostId,   \* next _id / createdAt rank handed out by Post.create
    follows,      \* Follow collection: <<follower, following>> -> number of edges
    comments,     \* Comment collection: id -> document or NoDoc
    nextCommentId,
    tokens,       \* DeviceToken collection: token value -> document or NoDoc
    notifs,       \* Notification collection: sequence of documents, oldest first
    fcmCalls,     \* number of calls made to the push transport
    failTasks,    \* un-awaited DeviceToken.markAsFailed calls in flight, per token
    sweeps,       \* runs of processScheduledNotifications in flight
    sessions,     \* UserSession collection: sequence of documents
    activities,   \* ScreenActivity collection: sequence of documents
    now,          \* wall clock, in milliseconds
    resp,         \* the response to the last answered request
    prev          \* the response before that one

vars == <<users, userSchema, awaiting, likeReqs, voiceCalls, sweeps, loginHistory, regReqs, posts, nextPostId, follows, comments,
          nextCommentId, tokens, notifs, fcmCalls, failTasks, sessions,
          activities, now, resp, prev>>

NoDoc == [none |-> TRUE]
NoUser == "nobody"
NoResp == [op |-> "none", status |-> 0]

\* ------------------------------------------------------------------------
\* Bounds of the model
\* ------------------------------------------------------------------------
MaxPosts == 2
MaxVotes == 3
MaxNow == 3
MaxComments == 2
MaxCount == 3
MaxNotifs == 2
MaxTasks == 1
MaxSessions == 2
MaxActivities == 3
MaxReqs == 2
MaxSweeps == 1
MaxCalls == 1
MaxSweepRecords == 3
MaxLikeReqs == 2
MaxVersion == 3
MaxAwaiting == 2
MaxFeedPosts == 11

\* ------------------------------------------------------------------------
\* Small helpers
\* ------------------------------------------------------------------------
Min(a, b) == IF a < b THEN a ELSE b
Max(a, b) == IF a > b THEN a ELSE b

RECURSIVE SeqOfSetDesc(_)
\* the elements of a finite set of integers, largest first
SeqOfSetDesc(S) ==
    IF S = {} THEN <<>>
    ELSE LET m == CHOOSE x \in S : \A y \in S : y <= x
         IN <<m>> \o SeqOfSetDesc(S \ {m})

Range(s) == {s[i] : i \in DOMAIN s}

\* ------------------------------------------------------------------------
\* Users known to the content specifications
\* ------------------------------------------------------------------------
UserIds == {"u1", "u2", "u3"}

SeedUsers ==
    [u \in UserIds |->
        [email |-> u, phone |-> u,
         role |-> IF u = "u3" THEN "ADMIN" ELSE "USER",
         isActive |-> TRUE]]

\* the accounts are there and the current User schema is loaded
KnownUsers == users = SeedUsers /\ userSchema = "current"

\* protect: the bearer of a token is let through when the account is active
Protect(caller) == users[caller] # NoDoc /\ users[caller].isActive

\* authorize(...roles): the role check behind protect
Authorize(caller, role) == users[caller].role = role

\* ------------------------------------------------------------------------
\* Posts: postController.js, adminController.js
\* ------------------------------------------------------------------------
PostIds == 1..MaxPosts
CommentIds == 1..MaxComments
TokenVals == {"t1", "t2"}
Visibilities == {"public", "private"}
MinLimit == 10
MaxLimit == 30
DefaultLimit == 10
PollDefaultLife == 604800000

LimitInputs == {0, 10, 40}
PageInputs == {0, 1, 2}
PollInputs ==
    [nOptions : {1, 2}, allowMultipleVotes : BOOLEAN, endsAt : {0, 2}]
NoPollInput == [nOptions |-> 0, allowMultipleVotes |-> FALSE, endsAt |-> 0]

\* Post.create(postData): the stored document
NewPost(caller, postType, visibility, pollIn) ==
    [user |-> caller,
     postType |-> postType,
     visibility |-> visibility,
     status |-> "inReview",
     isActive |-> TRUE,
     createdAt |-> nextPostId,
     likes |-> <<>>,
     version |-> 0,
     commentsCount |-> 0,
     poll |-> IF postType = "poll"
              THEN [allowMultipleVotes |-> pollIn.allowMultipleVotes,
                    endsAt |-> IF pollIn.endsAt = 0
                               THEN now + PollDefaultLife
                               ELSE pollIn.endsAt,
                    votes |-> [o \in 1..pollIn.nOptions |-> <<>>]]
              ELSE NoDoc]

\* POST /posts (protect, createPost)
createPost(caller, postType, visibility, pollIn) ==
    /\ nextPostId <= MaxPosts
    /\ IF ~Protect(caller)
       THEN /\ resp' = [op |-> "createPost", status |-> 401]
            /\ UNCHANGED <<posts, nextPostId>>
       ELSE IF postType = "poll" /\ pollIn.nOptions < 2
       THEN /\ resp' = [op |-> "createPost", status |-> 400]
            /\ UNCHANGED <<posts, nextPostId>>
       ELSE /\ posts' = [posts EXCEPT ![nextPostId] =
                            NewPost(caller, postType, visibility, pollIn)]
            /\ nextPostId' = nextPostId + 1
            /\ resp' = [op |-> "createPost", status |-> 201]
    /\ UNCHANGED <<users, loginHistory, regReqs, userSchema, awaiting, likeReqs, voiceCalls, sweeps, follows, comments,
                   nextCommentId, tokens, notifs, fcmCalls, failTasks,
                   sessions, activities, now, prev>>

\* the moderation step shared by approvePost and rejectPost
Moderate(op, caller, id, newStatus) ==
    /\ IF ~Protect(caller)
       THEN /\ resp' = [op |-> op, status |-> 401]
            /\ UNCHANGED posts
       ELSE IF ~Authorize(caller, "ADMIN")
       THEN /\ resp' = [op |-> op, status |-> 403]
            /\ UNCHANGED posts
       ELSE IF posts[id] = NoDoc
       THEN /\ resp' = [op |-> op, status |-> 404]
            /\ UNCHANGED posts
       ELSE /\ posts' = [posts EXCEPT ![id].status = newStatus]
            /\ resp' = [op |-> op, status |-> 200]
    /\ UNCHANGED <<users, loginHistory, regReqs, userSchema, awaiting, likeReqs, voiceCalls, sweeps, nextPostId, follows, comments,
                   nextCommentId, tokens, notifs, fcmCalls, failTasks,
                   sessions, activities, now, prev>>

\* PUT /admin/posts/:id/approve
approvePost(caller, id) == Moderate("approvePost", caller, id, "live")

\* PUT /admin/posts/:id/reject
rejectPost(caller, id) == Moderate("rejectPost", caller, id, "rejected")

\* PUT /posts/:id (protect, updatePost): only text and visibility change
updatePost(caller, id, visibility) ==
    /\ IF ~Protect(caller)
       THEN /\ resp' = [op |-> "updatePost", status |-> 401]
            /\ UNCHANGED posts
       ELSE IF posts[id] = NoDoc \/ ~posts[id].isActive
       THEN /\ resp' = [op |-> "updatePost", status |-> 404]
            /\ UNCHANGED posts
       ELSE IF posts[id].user # caller /\ users[caller].role # "ADMIN"
       THEN /\ resp' = [op |-> "updatePost", status |-> 403]
            /\ UNCHANGED posts
       ELSE /\ posts' = [posts EXCEPT ![id].visibility = visibility]
            /\ resp' = [op |-> "updatePost", status |-> 200]
    /\ UNCHANGED <<users, loginHistory, regReqs, userSchema, awaiting, likeReqs, voiceCalls, sweeps, nextPostId, follows, comments,
                   nextCommentId, tokens, notifs, fcmCalls, failTasks,
                   sessions, activities, now, prev>>

\* DELETE /posts/:id (protect, deletePost): hard delete
deletePost(caller, id) ==
    /\ IF ~Protect(caller)
       THEN /\ resp' = [op |-> "deletePost", status |-> 401]
            /\ UNCHANGED posts
       ELSE IF posts[id] = NoDoc
       THEN /\ resp' = [op |-> "deletePost", status |-> 404]
            /\ UNCHANGED posts
       ELSE IF posts[id].user # caller /\ users[caller].role # "ADMIN"
       THEN /\ resp' = [op |-> "deletePost", status |-> 403]
            /\ UNCHANGED posts
       ELSE /\ posts' = [posts EXCEPT ![id] = NoDoc]
            /\ resp' = [op |-> "deletePost", status |-> 200]
    /\ UNCHANGED <<users, loginHistory, regReqs, userSchema, awaiting, likeReqs, voiceCalls, sweeps, nextPostId, follows, comments,
                   nextCommentId, tokens, notifs, fcmCalls, failTasks,
                   sessions, activities, now, prev>>

\* PUT /admin/users/:id/status
updateUserStatus(caller, target, isActive) ==
    /\ IF ~Protect(caller)
       THEN /\ resp' = [op |-> "updateUserStatus", status |-> 401]
            /\ UNCHANGED users
       ELSE IF ~Authorize(caller, "ADMIN")
       THEN /\ resp' = [op |-> "updateUserStatus", status |-> 403]
            /\ UNCHANGED users
       ELSE IF users[target] = NoDoc
       THEN /\ resp' = [op |-> "updateUserStatus", status |-> 404]
            /\ UNCHANGED users
       ELSE /\ users' = [users EXCEPT ![target].isActive = isActive]
            /\ resp' = [op |-> "updateUserStatus", status |-> 200]
    /\ UNCHANGED <<loginHistory, regReqs, userSchema, awaiting, likeReqs, voiceCalls, sweeps, posts, nextPostId, follows, comments,
                   nextCommentId, tokens, notifs, fcmCalls, failTasks,
                   sessions, activities, now, prev>>

\* router.get('/', getPosts) has no protect in front: req.user is never set
FeedViewer(caller) == NoUser

\* page = Math.max(1, parseInt(req.query.page) || 1)
FeedPage(pageIn) == Max(1, IF pageIn = 0 THEN 1 ELSE pageIn)

\* limit = Math.min(30, Math.max(10, parseInt(req.query.limit) || 10))
FeedLimit(limitIn) ==
    Min(MaxLimit, Max(MinLimit, IF limitIn = 0 THEN DefaultLimit ELSE limitIn))

\* Follow.find({ follower: userId }) mapped to the followed ids
FollowingIds(userId) ==
    IF userId = NoUser THEN {}
    ELSE {b \in UserIds : follows[<<userId, b>>] > 0}

FeedQueryAnyStatus(p) ==
    /\ posts[p] # NoDoc
    /\ posts[p].isActive

\* query = { status: 'live', isActive: true, user: exists }
FeedQuery(p) ==
    /\ posts[p] # NoDoc
    /\ posts[p].status = "live"
    /\ posts[p].isActive

\* Post.find(query).sort({ createdAt: -1 }).skip(skip).limit(limit + 1)
FeedFetch(skip, limit) ==
    LET all == SeqOfSetDesc({p \in DOMAIN posts : FeedQuery(p)})
    IN SubSeq(all, skip + 1, Min(Len(all), skip + limit + 1))

\* populate({ path: 'user', match: { isActive: true } }) leaves user null
\* for an author that is missing or inactive
PopulatedUser(p) ==
    users[posts[p].user] # NoDoc /\ users[posts[p].user].isActive

\* the page of post ids getPosts answers with
FeedPosts(viewer, pageIn, limitIn) ==
    LET page == FeedPage(pageIn)
        limit == FeedLimit(limitIn)
        skip == (page - 1) * limit
        fetched == FeedFetch(skip, limit)
        hasMore == Len(fetched) > limit
        finalPosts == IF hasMore THEN SubSeq(fetched, 1, limit) ELSE fetched
        validPosts == SelectSeq(finalPosts, PopulatedUser)
        following == FollowingIds(viewer)
        IsFollowed(p) == posts[p].user \in following
        NotFollowed(p) == posts[p].user \notin following
    IN SelectSeq(validPosts, IsFollowed) \o SelectSeq(validPosts, NotFollowed)

\* the document as it is serialised into a response
PostView(p) ==
    [id |-> p, user |-> posts[p].user, status |-> posts[p].status,
     isActive |-> posts[p].isActive]

\* GET /posts (getPosts)
getPosts(caller, pageIn, limitIn) ==
    /\ LET page == FeedPosts(FeedViewer(caller), pageIn, limitIn)
           limit == FeedLimit(limitIn)
       IN resp' = [op |-> "getPosts", status |-> 200,
                   posts |-> [i \in 1..Len(page) |-> PostView(page[i])],
                   hasMore |-> Len(page) >= limit]
    /\ UNCHANGED <<users, loginHistory, regReqs, userSchema, awaiting, likeReqs, voiceCalls, sweeps, posts, nextPostId, follows,
                   comments, nextCommentId, tokens, notifs, fcmCalls,
                   failTasks, sessions, activities, now, prev>>

\* post || isActive || status === 'live' test of the single-post fetch
PostIsPublic(id) ==
    /\ posts[id] # NoDoc
    /\ posts[id].isActive
    /\ posts[id].status = "live"

\* GET /posts/:id (getPost)
getPost(caller, id) ==
    /\ IF ~PostIsPublic(id)
       THEN resp' = [op |-> "getPost", status |-> 404, caller |-> caller,
                     id |-> id, posts |-> <<>>]
       ELSE resp' = [op |-> "getPost", status |-> 200, caller |-> caller,
                     id |-> id, posts |-> <<PostView(id)>>]
    /\ UNCHANGED <<users, loginHistory, regReqs, userSchema, awaiting, likeReqs, voiceCalls, sweeps, posts, nextPostId, follows,
                   comments, nextCommentId, tokens, notifs, fcmCalls,
                   failTasks, sessions, activities, now, prev>>

NoTokens == tokens = [t \in TokenVals |-> NoDoc]

NoPosts == posts = [p \in PostIds |-> NoDoc] /\ nextPostId = 1

EmptyButPostsAndTokens ==
    /\ loginHistory = <<>>
    /\ regReqs = <<>>
    /\ follows = [e \in UserIds \X UserIds |-> 0]
    /\ comments = [c \in CommentIds |-> NoDoc]
    /\ nextCommentId = 1
    /\ notifs = <<>>
    /\ fcmCalls = 0
    /\ failTasks = [t \in TokenVals |-> <<>>]
    /\ sweeps = <<>>
    /\ awaiting = <<>>
    /\ likeReqs = <<>>
    /\ voiceCalls = <<>>
    /\ sessions = <<>>
    /\ activities = <<>>
    /\ now = 0
    /\ resp = NoResp
    /\ prev = NoResp

EmptyButTokens == EmptyButPostsAndTokens /\ NoPosts

EmptyDb == EmptyButTokens /\ NoTokens

InitFeed == EmptyDb /\ KnownUsers

\* the accounts that send requests in the feed specification
FeedCallers == {"u1", "u3"}

NextFeed ==
    \/ \E c \in FeedCallers, v \in Visibilities :
          createPost(c, "text", v, NoPollInput)
    \/ \E c \in FeedCallers, p \in PostIds : approvePost(c, p)
    \/ \E c \in FeedCallers, p \in PostIds : rejectPost(c, p)
    \/ \E c \in FeedCallers, p \in PostIds, v \in Visibilities :
          updatePost(c, p, v)
    \/ \E c \in FeedCallers, p \in PostIds : deletePost(c, p)
    \/ \E c \in FeedCallers, t \in FeedCallers, a \in BOOLEAN :
          updateUserStatus(c, t, a)
    \/ \E c \in FeedCallers, pg \in PageInputs, l \in LimitInputs :
          getPosts(c, pg, l)
    \/ \E c \in FeedCallers, p \in PostIds : getPost(c, p)

SpecFeed == InitFeed /\ [][NextFeed]_vars

\* C1: the public feed and the public single-post fetch answer only with
\* posts that are live and active, whoever asks, the post's author included.
OnlyLivePostsArePublic ==
    (resp.op \in {"getPosts", "getPost"} /\ resp.status = 200) =>
        \A i \in DOMAIN resp.posts :
            resp.posts[i].status = "live" /\ resp.posts[i].isActive

\* C1: an author asks for a rejected post of their own while another post
\* is live; the fetch is refused.
AuthorAsksForOwnRejectedPost ==
    /\ resp.op = "getPost"
    /\ resp.status = 404
    /\ posts[resp.id] # NoDoc
    /\ posts[resp.id].status = "rejected"
    /\ posts[resp.id].user = resp.caller
    /\ \E p \in PostIds : PostIsPublic(p)

\* ------------------------------------------------------------------------
\* Polls: postController.js voteOnPoll
\* ------------------------------------------------------------------------
MaxPolls == 1
OptionInputs == {-1, 0, 1, 2}

\* the wall clock moves on
Tick ==
    /\ now < MaxNow
    /\ now' = now + 1
    /\ UNCHANGED <<users, loginHistory, regReqs, userSchema, awaiting, likeReqs, voiceCalls, sweeps, posts, nextPostId, follows,
                   comments, nextCommentId, tokens, notifs, fcmCalls,
                   failTasks, sessions, activities, resp, prev>>

\* the number of votes a user holds over all options of a poll
RECURSIVE VotesOf(_, _, _)
VotesOf(poll, user, o) ==
    IF o = 0 THEN 0
    ELSE Cardinality({i \in DOMAIN poll.votes[o] : poll.votes[o][i] = user})
         + VotesOf(poll, user, o - 1)

\* all votes cast on a poll
RECURSIVE TotalVotes(_, _)
TotalVotes(poll, o) ==
    IF o = 0 THEN 0 ELSE Len(poll.votes[o]) + TotalVotes(poll, o - 1)

\* post.poll.options.some(o => o.votes.some(v => v.user === req.user.id))
AlreadyVoted(poll, caller) ==
    \E o \in DOMAIN poll.votes : \E i \in DOMAIN poll.votes[o] :
        poll.votes[o][i] = caller

VoteRefusedAlways(poll, caller) == FALSE

\* if (alreadyVoted && !post.poll.allowMultipleVotes) -> 'Already voted'
VoteRefused(poll, caller) ==
    AlreadyVoted(poll, caller) /\ ~poll.allowMultipleVotes

\* POST /posts/:id/vote (protect, voteOnPoll); optionIndex counts from 0
voteOnPoll(caller, id, optionIndex) ==
    /\ IF ~Protect(caller)
       THEN /\ resp' = [op |-> "voteOnPoll", status |-> 401, message |-> "Not authorized"]
            /\ UNCHANGED posts
       ELSE IF posts[id] = NoDoc \/ posts[id].postType # "poll"
               \/ posts[id].status # "live"
       THEN /\ resp' = [op |-> "voteOnPoll", status |-> 404, message |-> "Poll not live"]
            /\ UNCHANGED posts
       ELSE IF now > posts[id].poll.endsAt
       THEN /\ resp' = [op |-> "voteOnPoll", status |-> 400, message |-> "Poll ended"]
            /\ UNCHANGED posts
       ELSE IF optionIndex >= Len(posts[id].poll.votes)
       THEN /\ resp' = [op |-> "voteOnPoll", status |-> 400, message |-> "Invalid option"]
            /\ UNCHANGED posts
       ELSE IF VoteRefused(posts[id].poll, caller)
       THEN /\ resp' = [op |-> "voteOnPoll", status |-> 400, message |-> "Already voted"]
            /\ UNCHANGED posts
       ELSE IF optionIndex < 0
       THEN \* options[optionIndex] is undefined: TypeError, central handler
            /\ resp' = [op |-> "voteOnPoll", status |-> 500, message |-> "Server error"]
            /\ UNCHANGED posts
       ELSE /\ TotalVotes(posts[id].poll, Len(posts[id].poll.votes)) < MaxVotes
            /\ posts' = [posts EXCEPT ![id].poll.votes[optionIndex + 1] =
                                          Append(@, caller)]
            /\ resp' = [op |-> "voteOnPoll", status |-> 200, message |-> "Voted!"]
    /\ UNCHANGED <<users, loginHistory, regReqs, userSchema, awaiting, likeReqs, voiceCalls, sweeps, nextPostId, follows, comments,
                   nextCommentId, tokens, notifs, fcmCalls, failTasks,
                   sessions, activities, now, prev>>

InitPoll == EmptyDb /\ KnownUsers

NextPoll ==
    \/ \E pollIn \in PollInputs :
          nextPostId <= MaxPolls /\ createPost("u1", "poll", "public", pollIn)
    \/ \E p \in 1..MaxPolls : approvePost("u3", p)
    \/ \E p \in 1..MaxPolls : rejectPost("u3", p)
    \/ \E c \in {"u1", "u2"}, p \in 1..MaxPolls, o \in OptionInputs :
          voteOnPoll(c, p, o)
    \/ Tick

SpecPoll == InitPoll /\ [][NextPoll]_vars

\* a live poll that takes votes: not ended
OpenPoll(id) ==
    /\ posts[id] # NoDoc
    /\ posts[id].postType = "poll"
    /\ posts[id].status = "live"
    /\ now <= posts[id].poll.endsAt

\* C6: on a single-vote poll nobody ever holds two votes, a vote request of
\* a user who has voted is refused with 400 (as 'Already voted' while the
\* poll is open and the option exists) and adds no vote; on a multi-vote
\* poll the second vote on an existing option is accepted and stored.
SingleVotePollRule ==
    [][/\ \A p \in PostIds, u \in UserIds :
             (posts'[p] # NoDoc /\ posts'[p].postType = "poll"
                 /\ ~posts'[p].poll.allowMultipleVotes)
             => VotesOf(posts'[p].poll, u, Len(posts'[p].poll.votes)) <= 1
       /\ \A c \in UserIds, p \in PostIds, o \in OptionInputs :
             (voteOnPoll(c, p, o) /\ posts[p] # NoDoc
                 /\ posts[p].postType = "poll" /\ posts[p].status = "live"
                 /\ AlreadyVoted(posts[p].poll, c))
             => IF ~posts[p].poll.allowMultipleVotes
                THEN /\ resp'.status = 400
                     /\ posts' = posts
                     /\ (OpenPoll(p) /\ o < Len(posts[p].poll.votes))
                          => resp'.message = "Already voted"
                ELSE (OpenPoll(p) /\ o >= 0 /\ o < Len(posts[p].poll.votes))
                     => /\ resp'.status = 200
                        /\ VotesOf(posts'[p].poll, c, Len(posts[p].poll.votes))
                           = VotesOf(posts[p].poll, c, Len(posts[p].poll.votes)) + 1
      ]_vars

\* C6: a second vote on a single-vote poll has just been refused
SecondVoteRefused ==
    /\ resp.op = "voteOnPoll"
    /\ resp.status = 400
    /\ resp.message = "Already voted"
    /\ \E p \in PostIds, u \in UserIds :
          /\ OpenPoll(p)
          /\ ~posts[p].poll.allowMultipleVotes
          /\ VotesOf(posts[p].poll, u, Len(posts[p].poll.votes)) = 1

\* ------------------------------------------------------------------------
\* Follows: followController.js, Follow.js
\* ------------------------------------------------------------------------
Pairs == UserIds \X UserIds

\* the central error handler behind next(error): a generic server error
ErrorMiddleware(op) == [op |-> op, status |-> 500, message |-> "Server error"]

NoExistingFollow(a, b) == FALSE

\* Follow.findOne({ follower, following })
ExistingFollow(a, b) == follows[<<a, b>>] > 0

FollowDeleteByFollower(a, b) ==
    [e \in Pairs |-> IF e[1] = a THEN 0 ELSE follows[e]]

\* Follow.deleteOne({ follower, following })
FollowDeleteOne(a, b) ==
    [follows EXCEPT ![<<a, b>>] = Max(0, @ - 1)]

FollowIndexAcceptsAll(a, b) == TRUE

\* followSchema.index({ follower: 1, following: 1 }, { unique: true }):
\* whether Follow.create of the pair is accepted
FollowIndexAccepts(a, b) == follows[<<a, b>>] = 0

\* POST /follow/:userId (protect, followUser)
followUser(caller, target) ==
    /\ IF ~Protect(caller)
       THEN /\ resp' = [op |-> "followUser", status |-> 401, a |-> caller,
                        b |-> target, message |-> "Not authorized"]
            /\ UNCHANGED follows
       ELSE IF target = caller
       THEN /\ resp' = [op |-> "followUser", status |-> 400, a |-> caller,
                        b |-> target, message |-> "You cannot follow yourself"]
            /\ UNCHANGED follows
       ELSE IF ExistingFollow(caller, target)
       THEN /\ resp' = [op |-> "followUser", status |-> 400, a |-> caller,
                        b |-> target, message |-> "Already following"]
            /\ UNCHANGED follows
       ELSE IF ~FollowIndexAccepts(caller, target)
       THEN /\ resp' = ErrorMiddleware("followUser")
            /\ UNCHANGED follows
       ELSE /\ follows' = [follows EXCEPT ![<<caller, target>>] = @ + 1]
            /\ resp' = [op |-> "followUser", status |-> 200, a |-> caller,
                        b |-> target, message |-> "User followed successfully"]
    /\ prev' = resp
    /\ UNCHANGED <<users, loginHistory, regReqs, userSchema, awaiting, likeReqs, voiceCalls, sweeps, posts, nextPostId, comments,
                   nextCommentId, tokens, notifs, fcmCalls, failTasks,
                   sessions, activities, now>>

\* DELETE /follow/:userId (protect, unfollowUser)
unfollowUser(caller, target) ==
    /\ IF ~Protect(caller)
       THEN /\ resp' = [op |-> "unfollowUser", status |-> 401, a |-> caller,
                        b |-> target, message |-> "Not authorized"]
            /\ UNCHANGED follows
       ELSE /\ follows' = FollowDeleteOne(caller, target)
            /\ resp' = [op |-> "unfollowUser", status |-> 200, a |-> caller,
                        b |-> target, message |-> "User unfollowed successfully"]
    /\ prev' = resp
    /\ UNCHANGED <<users, loginHistory, regReqs, userSchema, awaiting, likeReqs, voiceCalls, sweeps, posts, nextPostId, comments,
                   nextCommentId, tokens, notifs, fcmCalls, failTasks,
                   sessions, activities, now>>

InitFollow == EmptyDb /\ KnownUsers

NextFollow ==
    \/ \E a \in UserIds, b \in UserIds : followUser(a, b)
    \/ \E a \in UserIds, b \in UserIds : unfollowUser(a, b)

SpecFollow == InitFollow /\ [][NextFollow]_vars

\* every pair but <<a, b>> keeps its edges over the step
OtherPairsUnchanged(a, b) ==
    \A e \in Pairs : e # <<a, b>> => follows'[e] = follows[e]

\* C4: followUser(A,B) changes no other pair's edges, and unfollowUser(A,B)
\* right after it leaves no edge from A to B and changes no other pair's
\* edges either.
FollowThenUnfollowLeavesNoEdge ==
    [][\A a \in UserIds, b \in UserIds :
          /\ (a # b /\ followUser(a, b)) => OtherPairsUnchanged(a, b)
          /\ (a # b /\ unfollowUser(a, b)
                /\ resp = [op |-> "followUser", status |-> 200, a |-> a,
                           b |-> b, message |-> "User followed successfully"])
             => /\ follows'[<<a, b>>] = 0
                /\ OtherPairsUnchanged(a, b)
      ]_vars

\* C4: A has followed and then unfollowed B while other edges exist,
\* the reverse edge among them
FollowedThenUnfollowed ==
    /\ prev.op = "followUser" /\ prev.status = 200
    /\ resp.op = "unfollowUser" /\ resp.status = 200
    /\ resp.a = prev.a /\ resp.b = prev.b
    /\ follows[<<resp.b, resp.a>>] = 1
    /\ \E e \in Pairs : e[1] = resp.a /\ follows[e] = 1

\* C5: while A follows B, another followUser(A,B) is answered with the 400
\* conflict 'Already following' and exactly one edge from A to B remains.
SecondFollowIsConflict ==
    [][\A a \in UserIds, b \in UserIds :
          (a # b /\ followUser(a, b) /\ follows[<<a, b>>] > 0)
          => /\ resp'.status = 400
             /\ resp'.message = "Already following"
             /\ follows'[<<a, b>>] = 1
      ]_vars

\* C5: a repeated follow has just been refused
RepeatedFollowRefused ==
    /\ prev.op = "followUser" /\ prev.status = 200
    /\ resp.op = "followUser" /\ resp.status = 400
    /\ resp.a = prev.a /\ resp.b = prev.b
    /\ follows[<<resp.a, resp.b>>] = 1

\* ------------------------------------------------------------------------
\* Comments: commentController.js (both versions in the file), Comment.js
\* ------------------------------------------------------------------------
NoParent == 0

\* a pair of collections a persistence hook hands back
Db(ps, cs) == [posts |-> ps, comments |-> cs]

\* findByIdAndUpdate(id, { $inc: { commentsCount: n } }); no document, no update
IncCommentsCount(ps, id, n) ==
    IF ps[id] = NoDoc THEN ps
    ELSE [ps EXCEPT ![id].commentsCount = @ + n]

\* findByIdAndUpdate(id, { $inc: { repliesCount: n } })
IncRepliesCount(cs, id, n) ==
    IF cs[id] = NoDoc THEN cs
    ELSE [cs EXCEPT ![id].repliesCount = @ + n]

CommentSaveHookPostOnly(ps, cs, doc) ==
    Db(IncCommentsCount(ps, doc.post, 1), cs)

\* commentSchema.post('save'): runs after every save of a comment document
CommentSaveHook(ps, cs, doc) ==
    IF doc.parentComment = NoParent
    THEN Db(IncCommentsCount(ps, doc.post, 1), cs)
    ELSE Db(ps, IncRepliesCount(cs, doc.parentComment, 1))

\* commentSchema.post('remove'): runs after document.remove()
CommentRemoveHook(ps, cs, doc) ==
    IF doc.parentComment = NoParent
    THEN Db(IncCommentsCount(ps, doc.post, -1), cs)
    ELSE Db(ps, IncRepliesCount(cs, doc.parentComment, -1))

\* the counters stay within the model's range
CountsInRange(db) ==
    /\ \A p \in PostIds :
          db.posts[p] # NoDoc => db.posts[p].commentsCount \in 0..MaxCount
    /\ \A c \in CommentIds :
          db.comments[c] # NoDoc => db.comments[c].repliesCount \in 0..MaxCount

\* the parent test of createComment: missing, deleted or of another post
BadParent(postId, parentId) ==
    \/ comments[parentId] = NoDoc
    \/ ~comments[parentId].isActive
    \/ comments[parentId].post # postId

\* POST /comments (protect, createComment)
createComment(caller, postId, parentId) ==
    /\ nextCommentId <= MaxComments
    /\ IF ~Protect(caller)
       THEN /\ resp' = [op |-> "createComment", status |-> 401]
            /\ UNCHANGED <<posts, comments, nextCommentId>>
       ELSE IF posts[postId] = NoDoc \/ ~posts[postId].isActive
       THEN /\ resp' = [op |-> "createComment", status |-> 404]
            /\ UNCHANGED <<posts, comments, nextCommentId>>
       ELSE IF parentId # NoParent /\ BadParent(postId, parentId)
       THEN /\ resp' = [op |-> "createComment", status |-> 404]
            /\ UNCHANGED <<posts, comments, nextCommentId>>
       ELSE LET doc == [post |-> postId, user |-> caller,
                        parentComment |-> parentId, isActive |-> TRUE,
                        isEdited |-> FALSE, likes |-> {}, repliesCount |-> 0]
                saved == [comments EXCEPT ![nextCommentId] = doc]
                db == CommentSaveHook(posts, saved, doc)
            IN /\ CountsInRange(db)
               /\ posts' = db.posts
               /\ comments' = db.comments
               /\ nextCommentId' = nextCommentId + 1
               /\ resp' = [op |-> "createComment", status |-> 201]
    /\ UNCHANGED <<users, loginHistory, regReqs, userSchema, awaiting, likeReqs, voiceCalls, sweeps, nextPostId, follows, tokens,
                   notifs, fcmCalls, failTasks, sessions, activities, now, prev>>

\* DELETE /comments/:id (protect, deleteComment), the soft delete:
\* isActive = false, then comment.save()
deleteComment(caller, id) ==
    /\ IF ~Protect(caller)
       THEN /\ resp' = [op |-> "deleteComment", status |-> 401]
            /\ UNCHANGED <<posts, comments>>
       ELSE IF comments[id] = NoDoc
       THEN /\ resp' = [op |-> "deleteComment", status |-> 404]
            /\ UNCHANGED <<posts, comments>>
       ELSE IF comments[id].user # caller /\ users[caller].role # "admin"
       THEN /\ resp' = [op |-> "deleteComment", status |-> 403]
            /\ UNCHANGED <<posts, comments>>
       ELSE LET doc == [comments[id] EXCEPT !.isActive = FALSE]
                saved == [comments EXCEPT ![id] = doc]
                db == CommentSaveHook(posts, saved, doc)
            IN /\ CountsInRange(db)
               /\ posts' = db.posts
               /\ comments' = db.comments
               /\ resp' = [op |-> "deleteComment", status |-> 200]
    /\ UNCHANGED <<users, loginHistory, regReqs, userSchema, awaiting, likeReqs, voiceCalls, sweeps, nextPostId, nextCommentId,
                   follows, tokens, notifs, fcmCalls, failTasks, sessions,
                   activities, now, prev>>

\* DELETE /comments/:id (protect, deleteComment), the version of the
\* controller that calls comment.remove()
deleteCommentRemove(caller, id) ==
    /\ IF ~Protect(caller)
       THEN /\ resp' = [op |-> "deleteCommentRemove", status |-> 401]
            /\ UNCHANGED <<posts, comments>>
       ELSE IF comments[id] = NoDoc
       THEN /\ resp' = [op |-> "deleteCommentRemove", status |-> 404]
            /\ UNCHANGED <<posts, comments>>
       ELSE IF comments[id].user # caller /\ users[caller].role # "admin"
       THEN /\ resp' = [op |-> "deleteCommentRemove", status |-> 403]
            /\ UNCHANGED <<posts, comments>>
       ELSE LET doc == comments[id]
                removed == [comments EXCEPT ![id] = NoDoc]
                db == CommentRemoveHook(posts, removed, doc)
            IN /\ CountsInRange(db)
               /\ posts' = db.posts
               /\ comments' = db.comments
               /\ resp' = [op |-> "deleteCommentRemove", status |-> 200]
    /\ UNCHANGED <<users, loginHistory, regReqs, userSchema, awaiting, likeReqs, voiceCalls, sweeps, nextPostId, nextCommentId,
                   follows, tokens, notifs, fcmCalls, failTasks, sessions,
                   activities, now, prev>>

InitComments == EmptyDb /\ KnownUsers

NextComments ==
    \/ createPost("u1", "text", "public", NoPollInput)
    \/ \E c \in {"u1", "u2"}, p \in PostIds, par \in {NoParent} \cup CommentIds :
          createComment(c, p, par)
    \/ \E c \in {"u1", "u2"}, id \in CommentIds : deleteComment(c, id)
    \/ \E c \in {"u1", "u2"}, id \in CommentIds : deleteCommentRemove(c, id)

SpecComments == InitComments /\ [][NextComments]_vars

\* the counters of every post but p, and of every comment but c, stay
OtherCountersUnchanged(p, c) ==
    /\ \A q \in PostIds :
          (q # p /\ posts[q] # NoDoc) =>
              posts'[q].commentsCount = posts[q].commentsCount
    /\ \A d \in CommentIds :
          (d # c /\ comments[d] # NoDoc /\ comments'[d] # NoDoc) =>
              comments'[d].repliesCount = comments[d].repliesCount

\* C7: an accepted createComment without a parent adds exactly 1 to the
\* post's commentsCount and changes no repliesCount; with a parent it adds
\* exactly 1 to the parent's repliesCount and leaves commentsCount alone.
CreateCommentCountsOnce ==
    [][\A c \in UserIds, p \in PostIds, par \in {NoParent} \cup CommentIds :
          (createComment(c, p, par) /\ resp'.status = 201)
          => IF par = NoParent
             THEN /\ posts'[p].commentsCount = posts[p].commentsCount + 1
                  /\ OtherCountersUnchanged(p, NoParent)
             ELSE /\ comments'[par].repliesCount = comments[par].repliesCount + 1
                  /\ posts'[p].commentsCount = posts[p].commentsCount
                  /\ OtherCountersUnchanged(p, par)
      ]_vars

\* C7: a reply has been stored under a top-level comment
ReplyCreated ==
    /\ resp = [op |-> "createComment", status |-> 201]
    /\ \E r \in CommentIds :
          /\ comments[r] # NoDoc
          /\ comments[r].parentComment # NoParent
          /\ comments[comments[r].parentComment].repliesCount = 1
          /\ posts[comments[r].post].commentsCount = 1

\* C8: an accepted deleteComment takes exactly 1 off the post's
\* commentsCount (top-level comment) or off the parent's repliesCount
\* (reply), in either version of the handler.
DeleteCommentCountsDown ==
    [][\A c \in UserIds, id \in CommentIds :
          ((deleteComment(c, id) \/ deleteCommentRemove(c, id))
              /\ resp'.status = 200)
          => IF comments[id].parentComment = NoParent
             THEN posts[comments[id].post] # NoDoc =>
                     posts'[comments[id].post].commentsCount
                        = posts[comments[id].post].commentsCount - 1
             ELSE comments[comments[id].parentComment] # NoDoc =>
                     comments'[comments[id].parentComment].repliesCount
                        = comments[comments[id].parentComment].repliesCount - 1
      ]_vars

\* ------------------------------------------------------------------------
\* Notifications: notificationService.js, DeviceToken.js, Notification.js,
\* notificationController.js, adminNotificationController.js
\* ------------------------------------------------------------------------
FailureThreshold == 5
\* a Date field that is not set
NoTime == -1
NotRead == [read |-> FALSE]

\* protect followed by authorize('ADMIN'): 0 when the request gets through
AdminGate(caller) ==
    IF ~Protect(caller) THEN 401
    ELSE IF ~Authorize(caller, "ADMIN") THEN 403
    ELSE 0

\* DeviceToken.registerToken(userId, { token }): re-parents and resets an
\* existing token, creates it otherwise
RegisterToken(userId, token) ==
    [tokens EXCEPT ![token] =
        [user |-> userId, isActive |-> TRUE, failureCount |-> 0]]

\* POST /notifications/register-token (protect, registerDeviceToken)
registerDeviceToken(caller, token) ==
    /\ IF ~Protect(caller)
       THEN /\ resp' = [op |-> "registerDeviceToken", status |-> 401]
            /\ UNCHANGED tokens
       ELSE /\ tokens' = RegisterToken(caller, token)
            /\ resp' = [op |-> "registerDeviceToken", status |-> 200]
    /\ UNCHANGED <<users, loginHistory, regReqs, userSchema, awaiting, likeReqs, voiceCalls, sweeps, posts, nextPostId, follows,
                   comments, nextCommentId, notifs, fcmCalls, failTasks,
                   sessions, activities, now, prev>>

\* DeviceToken.deactivateToken(token): findOneAndUpdate({ token }, { isActive: false })
DeactivateToken(token) ==
    IF tokens[token] = NoDoc THEN tokens
    ELSE [tokens EXCEPT ![token].isActive = FALSE]

\* POST /notifications/deactivate-token (protect, deactivateDeviceToken)
deactivateDeviceToken(caller, token) ==
    /\ IF ~Protect(caller)
       THEN /\ resp' = [op |-> "deactivateDeviceToken", status |-> 401]
            /\ UNCHANGED tokens
       ELSE /\ tokens' = DeactivateToken(token)
            /\ resp' = [op |-> "deactivateDeviceToken", status |-> 200]
    /\ UNCHANGED <<users, loginHistory, regReqs, userSchema, awaiting, likeReqs, voiceCalls, sweeps, posts, nextPostId, follows,
                   comments, nextCommentId, notifs, fcmCalls, failTasks,
                   sessions, activities, now, prev>>

RegisteredTokens(userId) ==
    {t \in TokenVals : tokens[t] # NoDoc /\ tokens[t].user = userId}

\* DeviceToken.getActiveTokens(userId): find({ user: userId, isActive: true })
GetActiveTokens(userId) ==
    {t \in TokenVals :
        tokens[t] # NoDoc /\ tokens[t].user = userId /\ tokens[t].isActive}

\* the answers of admin.messaging().sendEachForMulticast: it throws, or it
\* reports for each token whether the transport accepted it
TransportOutcomes ==
    {[threw |-> TRUE, ok |-> {}]}
        \cup {[threw |-> FALSE, ok |-> S] : S \in SUBSET TokenVals}

\* Notification.create({ recipient, ..., deliveryStatus: 'pending' })
NewNotification(userId) ==
    [recipient |-> userId, deliveryStatus |-> "pending", retryCount |-> 0,
     isScheduled |-> FALSE, scheduledFor |-> NoTime, hasError |-> FALSE,
     isActive |-> TRUE]

\* what a call of the service leaves behind
Delivery(ns, tasks, calls, error) ==
    [notifs |-> ns, failTasks |-> tasks, fcmCalls |-> calls, error |-> error]

\* DeviceToken.markAsFailed(token, reason) is called without await for
\* every token the transport refused: it starts as a task that has not
\* read its document yet
StartFailTasks(tasks, failed) ==
    [t \in TokenVals |->
        IF t \in failed THEN Append(tasks[t], NotRead) ELSE tasks[t]]

DeliveryStatusSent(accepted) == "sent"

\* notification.deliveryStatus = response.successCount > 0 ? 'sent' : 'failed'
DeliveryStatusFor(accepted) == IF accepted # {} THEN "sent" ELSE "failed"

\* NotificationService.sendToUser(userId, notificationData)
SendToUser(ns, tasks, calls, userId, outcome) ==
    LET active == GetActiveTokens(userId)
        created == Append(ns, NewNotification(userId))
        n == Len(created)
        accepted == outcome.ok \cap active
        failed == active \ accepted
    IN IF active = {}
       THEN Delivery(ns, tasks, calls, "No active device tokens found for user")
       ELSE IF outcome.threw
       THEN Delivery(created, tasks, calls + 1, "transport error")
       ELSE Delivery(
               [created EXCEPT
                   ![n].deliveryStatus = DeliveryStatusFor(accepted),
                   ![n].hasError = (accepted = {})],
               StartFailTasks(tasks, failed),
               calls + 1,
               "")

\* room for the records and tasks one call of sendToUser may add
RoomToSend ==
    /\ Len(notifs) < MaxNotifs
    /\ \A t \in TokenVals : Len(failTasks[t]) < MaxTasks

\* POST /admin/notifications/send (sendNotificationToUser)
sendNotificationToUser(caller, userId, outcome) ==
    /\ RoomToSend
    /\ IF AdminGate(caller) # 0
       THEN /\ resp' = [op |-> "sendNotificationToUser",
                        status |-> AdminGate(caller), user |-> userId]
            /\ UNCHANGED <<notifs, failTasks, fcmCalls>>
       ELSE IF users[userId] = NoDoc
       THEN /\ resp' = [op |-> "sendNotificationToUser", status |-> 404,
                        user |-> userId]
            /\ UNCHANGED <<notifs, failTasks, fcmCalls>>
       ELSE LET r == SendToUser(notifs, failTasks, fcmCalls, userId, outcome)
            IN /\ notifs' = r.notifs
               /\ failTasks' = r.failTasks
               /\ fcmCalls' = r.fcmCalls
               /\ resp' = [op |-> "sendNotificationToUser",
                           status |-> IF r.error = "" THEN 200 ELSE 500,
                           user |-> userId]
    /\ UNCHANGED <<users, loginHistory, regReqs, userSchema, awaiting, likeReqs, voiceCalls, sweeps, posts, nextPostId, follows,
                   comments, nextCommentId, tokens, sessions, activities,
                   now, prev>>

RetryAllowedUnlessSent(n) == n.deliveryStatus # "sent"

\* if (notification.deliveryStatus !== 'failed') -> 400
RetryAllowed(n) == n.deliveryStatus = "failed"

\* notificationSchema.methods.retry
NotificationRetry(n) ==
    [n EXCEPT !.retryCount = @ + 1, !.deliveryStatus = "pending",
              !.hasError = FALSE]

\* POST /admin/notifications/:id/retry (retryFailedNotification)
retryFailedNotification(caller, id, outcome) ==
    /\ RoomToSend
    /\ IF AdminGate(caller) # 0
       THEN /\ resp' = [op |-> "retryFailedNotification",
                        status |-> AdminGate(caller), id |-> id]
            /\ UNCHANGED <<notifs, failTasks, fcmCalls>>
       ELSE IF id \notin DOMAIN notifs
       THEN /\ resp' = [op |-> "retryFailedNotification", status |-> 404,
                        id |-> id]
            /\ UNCHANGED <<notifs, failTasks, fcmCalls>>
       ELSE IF ~RetryAllowed(notifs[id])
       THEN /\ resp' = [op |-> "retryFailedNotification", status |-> 400,
                        id |-> id]
            /\ UNCHANGED <<notifs, failTasks, fcmCalls>>
       ELSE LET retried == [notifs EXCEPT ![id] = NotificationRetry(@)]
                r == SendToUser(retried, failTasks, fcmCalls,
                                notifs[id].recipient, outcome)
            IN /\ notifs' = r.notifs
               /\ failTasks' = r.failTasks
               /\ fcmCalls' = r.fcmCalls
               /\ resp' = [op |-> "retryFailedNotification",
                           status |-> IF r.error = "" THEN 200 ELSE 500,
                           id |-> id]
    /\ UNCHANGED <<users, loginHistory, regReqs, userSchema, awaiting, likeReqs, voiceCalls, sweeps, posts, nextPostId, follows,
                   comments, nextCommentId, tokens, sessions, activities,
                   now, prev>>

\* Notification.markAsRead(notificationId, userId):
\* findOneAndUpdate({ _id, recipient }, { deliveryStatus: 'read' })
\* PATCH /notifications/:id/read (protect, markAsRead)
markAsRead(caller, id) ==
    /\ IF ~Protect(caller)
       THEN /\ resp' = [op |-> "markAsRead", status |-> 401]
            /\ UNCHANGED notifs
       ELSE IF id \notin DOMAIN notifs \/ notifs[id].recipient # caller
       THEN /\ resp' = [op |-> "markAsRead", status |-> 404]
            /\ UNCHANGED notifs
       ELSE /\ notifs' = [notifs EXCEPT ![id].deliveryStatus = "read"]
            /\ resp' = [op |-> "markAsRead", status |-> 200]
    /\ UNCHANGED <<users, loginHistory, regReqs, userSchema, awaiting, likeReqs, voiceCalls, sweeps, posts, nextPostId, follows,
                   comments, nextCommentId, tokens, fcmCalls, failTasks,
                   sessions, activities, now, prev>>

\* Notification.markAllAsRead(userId): updateMany({ recipient,
\* deliveryStatus: { $in: ['sent', 'delivered'] }, isActive: true },
\* { deliveryStatus: 'read' })
\* PATCH /notifications/read-all (protect, markAllAsRead)
markAllAsRead(caller) ==
    /\ IF ~Protect(caller)
       THEN /\ resp' = [op |-> "markAllAsRead", status |-> 401]
            /\ UNCHANGED notifs
       ELSE /\ notifs' = [i \in DOMAIN notifs |->
                            IF /\ notifs[i].recipient = caller
                               /\ notifs[i].deliveryStatus
                                     \in {"sent", "delivered"}
                               /\ notifs[i].isActive
                            THEN [notifs[i] EXCEPT !.deliveryStatus = "read"]
                            ELSE notifs[i]]
            /\ resp' = [op |-> "markAllAsRead", status |-> 200]
    /\ UNCHANGED <<users, userSchema, awaiting, likeReqs, voiceCalls, sweeps, loginHistory, regReqs, posts,
                   nextPostId, follows, comments, nextCommentId, tokens,
                   fcmCalls, failTasks, sessions, activities, now, prev>>

\* DeviceToken.markAsFailed, up to its await of findOne({ token })
markAsFailedFind(token, i) ==
    /\ i \in DOMAIN failTasks[token]
    /\ failTasks[token][i] = NotRead
    /\ IF tokens[token] = NoDoc
       THEN failTasks' = [failTasks EXCEPT ![token] =
                            SubSeq(@, 1, i - 1) \o SubSeq(@, i + 1, Len(@))]
       ELSE failTasks' = [failTasks EXCEPT ![token][i] =
                            [failureCount |-> tokens[token].failureCount,
                             isActive |-> tokens[token].isActive]]
    /\ UNCHANGED <<users, loginHistory, regReqs, userSchema, awaiting, likeReqs, voiceCalls, sweeps, posts, nextPostId, follows,
                   comments, nextCommentId, tokens, notifs, fcmCalls,
                   sessions, activities, now, resp, prev>>

\* an assignment marks a path of a loaded document as modified only when
\* the value differs from the one loaded
IsModified(loaded, assigned) == assigned # loaded

\* DeviceToken.markAsFailed, from failureCount += 1 to the save: the save
\* writes the paths the task modified on the document it loaded,
\* failureCount and, at the threshold, isActive
markAsFailedSave(token, i) ==
    /\ i \in DOMAIN failTasks[token]
    /\ failTasks[token][i] # NotRead
    /\ LET loaded == failTasks[token][i]
           count == loaded.failureCount + 1
       IN tokens' = [tokens EXCEPT ![token] =
             IF @ = NoDoc THEN @
             ELSE [@ EXCEPT !.failureCount = count,
                            !.isActive = IF /\ count >= FailureThreshold
                                            /\ IsModified(loaded.isActive, FALSE)
                                         THEN FALSE ELSE @]]
    /\ failTasks' = [failTasks EXCEPT ![token] =
                        SubSeq(@, 1, i - 1) \o SubSeq(@, i + 1, Len(@))]
    /\ UNCHANGED <<users, loginHistory, regReqs, userSchema, awaiting, likeReqs, voiceCalls, sweeps, posts, nextPostId, follows,
                   comments, nextCommentId, notifs, fcmCalls, sessions,
                   activities, now, resp, prev>>

InitNotif == EmptyDb /\ KnownUsers

NextNotif ==
    \/ \E t \in TokenVals : registerDeviceToken("u1", t)
    \/ \E t \in TokenVals : deactivateDeviceToken("u1", t)
    \/ \E u \in {"u1", "u2"}, o \in TransportOutcomes :
          sendNotificationToUser("u3", u, o)
    \/ \E id \in 1..MaxNotifs, o \in TransportOutcomes :
          retryFailedNotification("u3", id, o)
    \/ \E c \in {"u1", "u2"}, id \in 1..MaxNotifs : markAsRead(c, id)
    \/ \E c \in {"u1", "u2"} : markAllAsRead(c)
    \/ \E t \in TokenVals, i \in 1..MaxTasks : markAsFailedFind(t, i)
    \/ \E t \in TokenVals, i \in 1..MaxTasks : markAsFailedSave(t, i)

SpecNotif == InitNotif /\ [][NextNotif]_vars

\* the notification records that say 'sent'
SentRecords(ns) == {i \in DOMAIN ns : ns[i].deliveryStatus = "sent"}

\* no device token of the user is active
HasNoActiveToken(u) ==
    \A t \in TokenVals :
        tokens[t] = NoDoc \/ tokens[t].user # u \/ ~tokens[t].isActive

\* C2: a send to a recipient without an active device token (through the
\* admin send request or through a retry) ends in an error, makes no call
\* to the push transport and creates no record that says 'sent'.
NoTokenNoSend ==
    [][/\ \A u \in UserIds, o \in TransportOutcomes :
             (sendNotificationToUser("u3", u, o) /\ HasNoActiveToken(u))
             => /\ resp'.status = 500
                /\ fcmCalls' = fcmCalls
                /\ SentRecords(notifs') = SentRecords(notifs)
                /\ Len(notifs') = Len(notifs)
       /\ \A id \in 1..MaxNotifs, o \in TransportOutcomes :
             (retryFailedNotification("u3", id, o) /\ id \in DOMAIN notifs
                 /\ notifs[id].deliveryStatus = "failed"
                 /\ HasNoActiveToken(notifs[id].recipient))
             => /\ resp'.status = 500
                /\ fcmCalls' = fcmCalls
                /\ SentRecords(notifs') = SentRecords(notifs)
                /\ Len(notifs') = Len(notifs)
      ]_vars

\* C2: a send to a user whose only token was deactivated has just failed
SendToDeactivatedTokenFailed ==
    /\ resp.op = "sendNotificationToUser"
    /\ resp.status = 500
    /\ RegisteredTokens(resp.user) # {}
    /\ HasNoActiveToken(resp.user)
    /\ fcmCalls > 0

\* the tokens of the user that are registered and active
ActiveTokensOf(u) ==
    {t \in TokenVals :
        tokens[t] # NoDoc /\ tokens[t].user = u /\ tokens[t].isActive}

\* C12: when sendToUser reaches the transport and the transport answers,
\* the record it created says 'sent' exactly when the transport accepted
\* at least one of the recipient's tokens, and says 'failed' and carries
\* an error message otherwise; it does not stay 'pending'.
TransportAnswerDecidesStatus ==
    [][\A u \in UserIds, o \in TransportOutcomes :
          (/\ sendNotificationToUser("u3", u, o)
           /\ ActiveTokensOf(u) # {}
           /\ ~o.threw)
          => LET n == Len(notifs')
             IN /\ n = Len(notifs) + 1
                /\ fcmCalls' = fcmCalls + 1
                /\ notifs'[n].recipient = u
                /\ notifs'[n].deliveryStatus \in {"sent", "failed"}
                /\ notifs'[n].deliveryStatus = "sent"
                      <=> (o.ok \cap ActiveTokensOf(u) # {})
                /\ notifs'[n].deliveryStatus = "failed"
                      => notifs'[n].hasError
                /\ notifs'[n].deliveryStatus = "sent"
                      => ~notifs'[n].hasError
      ]_vars

\* C12: of two sends to the same user that reached the transport, the
\* first has ended 'sent' and the second 'failed' with an error message
OneSentOneFailed ==
    /\ Len(notifs) = 2
    /\ notifs[1].recipient = notifs[2].recipient
    /\ notifs[1].deliveryStatus = "sent"
    /\ notifs[1].retryCount = 0
    /\ notifs[2].deliveryStatus = "failed"
    /\ notifs[2].hasError
    /\ fcmCalls = 2
    /\ resp.op = "sendNotificationToUser"
    /\ resp.status = 200

\* C18: a notification that is pending or failed never becomes read:
\* marking as read only turns sent or delivered notifications into read.
OnlyDeliveredBecomesRead ==
    [][\A id \in DOMAIN notifs :
          notifs[id].deliveryStatus \in {"pending", "failed"}
          => notifs'[id].deliveryStatus # "read"
      ]_vars

\* C3: a retry is accepted only for a record that says 'failed'; for any
\* other record it is answered with 400, nothing is sent and the record's
\* deliveryStatus and retryCount stay as they were.
RetryOnlyWhenFailed ==
    [][\A id \in 1..MaxNotifs, o \in TransportOutcomes :
          (retryFailedNotification("u3", id, o) /\ id \in DOMAIN notifs)
          => IF notifs[id].deliveryStatus = "failed"
             THEN /\ resp'.status # 400
                  /\ notifs'[id].retryCount = notifs[id].retryCount + 1
             ELSE /\ resp'.status = 400
                  /\ fcmCalls' = fcmCalls
                  /\ failTasks' = failTasks
                  /\ notifs' = notifs
      ]_vars

\* C26: an accepted retry of a failed notification adds exactly 1 to its
\* retryCount and, when the request has finished, leaves it 'sent' or
\* 'failed', not 'pending'.
RetryEndsSentOrFailed ==
    [][\A id \in 1..MaxNotifs, o \in TransportOutcomes :
          (/\ resp'.op = "retryFailedNotification"
           /\ resp'.status \in {200, 500}
           /\ retryFailedNotification("u3", id, o))
          => /\ notifs'[id].retryCount = notifs[id].retryCount + 1
             /\ notifs'[id].deliveryStatus \in {"sent", "failed"}
      ]_vars

\* C3: the retry of a record that is pending, because it was retried
\* before, has just been refused
RetryOfPendingRefused ==
    /\ resp.op = "retryFailedNotification"
    /\ resp.status = 400
    /\ notifs[resp.id].deliveryStatus = "pending"
    /\ notifs[resp.id].retryCount = 1

\* ------------------------------------------------------------------------
\* Sessions and screen activities: trackingController.js, UserSession.js,
\* ScreenActivity.js
\* ------------------------------------------------------------------------
\* the time that passes between two requests, in milliseconds
WaitMs == 500
MsPerSecond == 1000
ScreenNames == {"home", "feed"}
NoScreen == "none"

\* the wall clock moves on between requests
Wait ==
    /\ now < MaxNow * WaitMs
    /\ now' = now + WaitMs
    /\ UNCHANGED <<users, loginHistory, regReqs, userSchema, awaiting, likeReqs, voiceCalls, sweeps, posts, nextPostId, follows,
                   comments, nextCommentId, tokens, notifs, fcmCalls,
                   failTasks, sessions, activities, resp, prev>>

DurationMillis(from, to) == to - from

\* Math.floor((to - from) / 1000)
DurationSeconds(from, to) == (to - from) \div MsPerSecond

\* userSessionSchema.methods.endSession
SessionEnd(s) ==
    [s EXCEPT !.endTime = now, !.status = "logged_out",
              !.totalDuration = DurationSeconds(s.startTime, now)]

\* userSessionSchema.methods.updateActivity
SessionUpdateActivity(s) ==
    [s EXCEPT !.lastActivityTime = now, !.status = "active"]

\* UserSession.findOne({ user, status: 'active' }): the sessions it may return
ActiveSessionsOf(userId) ==
    {i \in DOMAIN sessions :
        sessions[i].user = userId /\ sessions[i].status = "active"}

\* UserSession.findOne({ _id: sessionId, user, status: 'active' })
FindActiveSession(userId, sessionId) ==
    /\ sessionId \in DOMAIN sessions
    /\ sessions[sessionId].user = userId
    /\ sessions[sessionId].status = "active"

\* ScreenActivity.create({ session, user, screenName, ... })
NewActivity(sessionId, userId, screenName) ==
    [session |-> sessionId, user |-> userId, screenName |-> screenName,
     enteredAt |-> now, exitedAt |-> NoTime, duration |-> 0,
     nextScreen |-> NoScreen]

\* screenActivitySchema.methods.exitScreen
ExitScreen(a, nextScreen) ==
    [a EXCEPT !.exitedAt = now,
              !.duration = DurationSeconds(a.enteredAt, now),
              !.nextScreen = nextScreen]

\* POST /tracking/session/start (protect, startSession)
startSession(caller) ==
    /\ Len(sessions) < MaxSessions
    /\ Len(activities) < MaxActivities
    /\ IF ~Protect(caller)
       THEN /\ resp' = [op |-> "startSession", status |-> 401, session |-> 0]
            /\ UNCHANGED <<sessions, activities>>
       ELSE \E existing \in IF ActiveSessionsOf(caller) = {} THEN {0}
                            ELSE ActiveSessionsOf(caller) :
            LET closed == IF existing = 0 THEN sessions
                          ELSE [sessions EXCEPT ![existing] = SessionEnd(@)]
                created == [user |-> caller, status |-> "active",
                            startTime |-> now, lastActivityTime |-> now,
                            endTime |-> NoTime, totalDuration |-> 0,
                            totalScreens |-> 0]
                id == Len(sessions) + 1
            IN /\ sessions' = Append(closed, SessionUpdateActivity(created))
               /\ activities' = Append(activities,
                                       NewActivity(id, caller, "login"))
               /\ resp' = [op |-> "startSession", status |-> 201,
                           session |-> id]
    /\ UNCHANGED <<users, loginHistory, regReqs, userSchema, awaiting, likeReqs, voiceCalls, sweeps, posts, nextPostId, follows,
                   comments, nextCommentId, tokens, notifs, fcmCalls,
                   failTasks, now, prev>>

\* ScreenActivity.findOne({ session, user, screenName: previousScreen,
\* exitedAt: null }).sort({ enteredAt: -1 }): the activities it may return
OpenActivitiesNamed(sessionId, userId, screenName) ==
    {i \in DOMAIN activities :
        /\ activities[i].session = sessionId
        /\ activities[i].user = userId
        /\ activities[i].screenName = screenName
        /\ activities[i].exitedAt = NoTime}

LatestEntered(S) ==
    {i \in S : \A j \in S : activities[j].enteredAt <= activities[i].enteredAt}

\* POST /tracking/screen (protect, trackScreen)
trackScreen(caller, sessionId, screenName, previousScreen) ==
    /\ Len(activities) < MaxActivities
    /\ IF ~Protect(caller)
       THEN /\ resp' = [op |-> "trackScreen", status |-> 401,
                        session |-> sessionId]
            /\ UNCHANGED <<sessions, activities>>
       ELSE IF ~FindActiveSession(caller, sessionId)
       THEN /\ resp' = [op |-> "trackScreen", status |-> 404,
                        session |-> sessionId]
            /\ UNCHANGED <<sessions, activities>>
       ELSE LET found == IF previousScreen = NoScreen THEN {}
                         ELSE LatestEntered(OpenActivitiesNamed(
                                  sessionId, caller, previousScreen))
            IN \E prevActivity \in IF found = {} THEN {0} ELSE found :
               LET exited == IF prevActivity = 0 THEN activities
                             ELSE [activities EXCEPT ![prevActivity] =
                                      ExitScreen(@, screenName)]
               IN /\ activities' = Append(exited,
                         NewActivity(sessionId, caller, screenName))
                  /\ sessions' = [sessions EXCEPT ![sessionId] =
                         SessionUpdateActivity(
                             [@ EXCEPT !.totalScreens = @ + 1])]
                  /\ resp' = [op |-> "trackScreen", status |-> 201,
                              session |-> sessionId]
    /\ UNCHANGED <<users, loginHistory, regReqs, userSchema, awaiting, likeReqs, voiceCalls, sweeps, posts, nextPostId, follows,
                   comments, nextCommentId, tokens, notifs, fcmCalls,
                   failTasks, now, prev>>

\* ScreenActivity.updateMany({ session, exitedAt: null },
\*                           { $set: { exitedAt: new Date() } })
ExitOpenScreens(as, sessionId) ==
    [i \in DOMAIN as |->
        IF as[i].session = sessionId /\ as[i].exitedAt = NoTime
        THEN [as[i] EXCEPT !.exitedAt = now]
        ELSE as[i]]

\* ScreenActivity.find({ session, duration: 0 }) and the loop over it
ComputeDurations(as, sessionId) ==
    [i \in DOMAIN as |->
        IF /\ as[i].session = sessionId
           /\ as[i].duration = 0
           /\ as[i].exitedAt # NoTime
        THEN [as[i] EXCEPT
                 !.duration = DurationSeconds(as[i].enteredAt, as[i].exitedAt)]
        ELSE as[i]]

\* POST /tracking/session/end (protect, endSession)
endSession(caller, sessionId) ==
    /\ IF ~Protect(caller)
       THEN /\ resp' = [op |-> "endSession", status |-> 401,
                        session |-> sessionId]
            /\ UNCHANGED <<sessions, activities>>
       ELSE IF ~FindActiveSession(caller, sessionId)
       THEN /\ resp' = [op |-> "endSession", status |-> 404,
                        session |-> sessionId]
            /\ UNCHANGED <<sessions, activities>>
       ELSE /\ activities' = ComputeDurations(
                                ExitOpenScreens(activities, sessionId),
                                sessionId)
            /\ sessions' = [sessions EXCEPT ![sessionId] = SessionEnd(@)]
            /\ resp' = [op |-> "endSession", status |-> 200,
                        session |-> sessionId]
    /\ UNCHANGED <<users, loginHistory, regReqs, userSchema, awaiting, likeReqs, voiceCalls, sweeps, posts, nextPostId, follows,
                   comments, nextCommentId, tokens, notifs, fcmCalls,
                   failTasks, now, prev>>

InitSessions == EmptyDb /\ KnownUsers

NextSessions ==
    \/ \E c \in {"u1", "u2"} : startSession(c)
    \/ \E c \in {"u1", "u2"}, sid \in 1..MaxSessions,
          name \in ScreenNames, before \in ScreenNames \cup {NoScreen, "login"} :
          trackScreen(c, sid, name, before)
    \/ \E c \in {"u1", "u2"}, sid \in 1..MaxSessions : endSession(c, sid)
    \/ Wait

SpecSessions == InitSessions /\ [][NextSessions]_vars

\* C9: when endSession succeeds, every activity of the session that was
\* open gets exitedAt set to the time of the request and a duration that is
\* not negative and equals floor((exitedAt - enteredAt) / 1000); no
\* activity of the session stays open.
EndSessionClosesActivities ==
    [][\A c \in UserIds, sid \in 1..MaxSessions :
          (endSession(c, sid) /\ resp'.status = 200)
          => \A i \in DOMAIN activities :
                activities[i].session = sid
                => /\ activities'[i].exitedAt # NoTime
                   /\ activities[i].exitedAt = NoTime
                      => /\ activities'[i].exitedAt = now
                         /\ activities'[i].duration >= 0
                         /\ activities'[i].duration * 1000
                               <= activities'[i].exitedAt
                                    - activities'[i].enteredAt
                         /\ activities'[i].exitedAt - activities'[i].enteredAt
                               < (activities'[i].duration + 1) * 1000
      ]_vars

\* the activities of a session that are open
OpenActivities(sid) ==
    {i \in DOMAIN activities :
        activities[i].session = sid /\ activities[i].exitedAt = NoTime}

\* C15: whatever startSession, trackScreen and endSession requests were
\* served, no session has more than one activity with exitedAt unset.
AtMostOneOpenActivity ==
    \A sid \in DOMAIN sessions : Cardinality(OpenActivities(sid)) <= 1

\* C9: endSession has just closed two activities that were open, one of
\* them a second and a half after it was entered
EndSessionClosedTwo ==
    /\ resp.op = "endSession"
    /\ resp.status = 200
    /\ \E i, j \in DOMAIN activities :
          /\ i # j
          /\ activities[i].session = resp.session
          /\ activities[j].session = resp.session
          /\ activities[i].exitedAt = sessions[resp.session].endTime
          /\ activities[j].exitedAt = sessions[resp.session].endTime
          /\ activities[i].nextScreen = NoScreen
          /\ activities[j].nextScreen = NoScreen
          /\ activities[i].exitedAt - activities[i].enteredAt = 1500
          /\ activities[i].duration = 1

\* ------------------------------------------------------------------------
\* Accounts: authController.js register and registerAdmin, the
\* auto-registration of authMiddleware.js protect, the two User schemas
\* ------------------------------------------------------------------------
UserSchemas == {"current", "earlier"}
RawEmails == {"a@x.com", "A@x.com"}
Phones == {"p1", "p2"}
NoPhone == "none"

Lowercase(e) == IF e = "A@x.com" THEN "a@x.com" ELSE e

\* body('email').isEmail().normalizeEmail(): the handler sees the
\* normalised address
NormalizeEmail(e) == Lowercase(e)

\* the earlier schema declares email with lowercase: true, the current
\* schema stores and compares the string as it comes
CastEmail(e) == IF userSchema = "earlier" THEN Lowercase(e) ELSE e

EmailInUse(email) ==
    \E u \in UserIds : users[u] # NoDoc /\ users[u].email = CastEmail(email)

PhoneInUse(phone) ==
    \E u \in UserIds : users[u] # NoDoc /\ users[u].phone = phone

\* User.findOne({ $or: [{ email }, { phone }] })
ExistingUser(email, phone) == EmailInUse(email) \/ PhoneInUse(phone)

\* role when the request gives none: the schema's default
DefaultRole == IF userSchema = "current" THEN "USER" ELSE "user"

\* the validators of the schema that run before an insert
UserValidates(doc) ==
    IF userSchema = "current"
    THEN doc.userName /\ doc.role \in {"USER", "ADMIN"}
    ELSE doc.phone # NoPhone /\ doc.role \in {"user", "admin"}

EmailIndexAcceptsAny(email) == TRUE

\* the unique index on email
EmailIndexAccepts(email) == ~EmailInUse(email)

\* the unique index on phone, which only the earlier schema declares
PhoneIndexAccepts(phone) == userSchema = "current" \/ ~PhoneInUse(phone)

\* User.create(doc): what becomes of it
CreateOutcome(doc) ==
    IF ~UserValidates(doc) THEN "ValidationError"
    ELSE IF ~(EmailIndexAccepts(doc.email) /\ PhoneIndexAccepts(doc.phone))
    THEN "DuplicateKey"
    ELSE "created"

\* the document User.create stores
StoredUser(doc) ==
    [email |-> CastEmail(doc.email), phone |-> doc.phone, role |-> doc.role,
     isActive |-> TRUE]

FreeUserIds == {u \in UserIds : users[u] = NoDoc}
NewUserId == CHOOSE u \in FreeUserIds : TRUE

DropReq(i) == SubSeq(regReqs, 1, i - 1) \o SubSeq(regReqs, i + 1, Len(regReqs))

\* POST /auth/register, up to the answer of User.findOne
registerCheck(rawEmail, phone) ==
    /\ Len(regReqs) < MaxReqs
    /\ LET email == NormalizeEmail(rawEmail)
       IN IF ExistingUser(email, phone)
          THEN /\ resp' = [op |-> "register", status |-> 400, email |-> email]
               /\ UNCHANGED regReqs
          ELSE /\ regReqs' = Append(regReqs,
                      [op |-> "register", email |-> email, phone |-> phone,
                       user |-> NoUser])
               /\ UNCHANGED resp
    /\ UNCHANGED <<users, userSchema, awaiting, likeReqs, voiceCalls, sweeps, loginHistory, posts, nextPostId, follows,
                   comments, nextCommentId, tokens, notifs, fcmCalls,
                   failTasks, sessions, activities, now, prev>>

\* register: User.create({ name, email, phone, password, ... })
registerCreate(i) ==
    /\ i \in DOMAIN regReqs
    /\ regReqs[i].op = "register"
    /\ regReqs[i].user = NoUser
    /\ FreeUserIds # {}
    /\ LET doc == [userName |-> FALSE, email |-> regReqs[i].email,
                   phone |-> regReqs[i].phone, role |-> DefaultRole]
       IN IF CreateOutcome(doc) = "created"
          THEN /\ users' = [users EXCEPT ![NewUserId] = StoredUser(doc)]
               /\ regReqs' = [regReqs EXCEPT ![i].user = NewUserId]
               /\ UNCHANGED resp
          ELSE /\ resp' = ErrorMiddleware("register")
               /\ regReqs' = DropReq(i)
               /\ UNCHANGED users
    /\ UNCHANGED <<userSchema, awaiting, likeReqs, voiceCalls, sweeps, loginHistory, posts, nextPostId, follows,
                   comments, nextCommentId, tokens, notifs, fcmCalls,
                   failTasks, sessions, activities, now, prev>>

\* register: LoginHistory.create({ user: user._id, ... }) and the answer
registerHistory(i) ==
    /\ i \in DOMAIN regReqs
    /\ regReqs[i].op = "register"
    /\ regReqs[i].user # NoUser
    /\ loginHistory' = Append(loginHistory, regReqs[i].user)
    /\ resp' = [op |-> "register", status |-> 201,
                email |-> regReqs[i].email]
    /\ regReqs' = DropReq(i)
    /\ UNCHANGED <<users, userSchema, awaiting, likeReqs, voiceCalls, sweeps, posts, nextPostId, follows, comments,
                   nextCommentId, tokens, notifs, fcmCalls, failTasks,
                   sessions, activities, now, prev>>

\* POST /auth/register-admin, up to the answer of User.findOne; the
\* route has no validators, the address is taken as sent
registerAdminCheck(rawEmail, phone, secretOk) ==
    /\ Len(regReqs) < MaxReqs
    /\ IF ~secretOk
       THEN /\ resp' = [op |-> "registerAdmin", status |-> 403,
                        email |-> rawEmail]
            /\ UNCHANGED regReqs
       ELSE IF ExistingUser(rawEmail, phone)
       THEN /\ resp' = [op |-> "registerAdmin", status |-> 400,
                        email |-> rawEmail]
            /\ UNCHANGED regReqs
       ELSE /\ regReqs' = Append(regReqs,
                   [op |-> "registerAdmin", email |-> rawEmail,
                    phone |-> phone, user |-> NoUser])
            /\ UNCHANGED resp
    /\ UNCHANGED <<users, userSchema, awaiting, likeReqs, voiceCalls, sweeps, loginHistory, posts, nextPostId, follows,
                   comments, nextCommentId, tokens, notifs, fcmCalls,
                   failTasks, sessions, activities, now, prev>>

\* registerAdmin: User.create({ ..., role: 'admin' }) and the answer
registerAdminCreate(i) ==
    /\ i \in DOMAIN regReqs
    /\ regReqs[i].op = "registerAdmin"
    /\ FreeUserIds # {}
    /\ LET doc == [userName |-> FALSE, email |-> regReqs[i].email,
                   phone |-> regReqs[i].phone, role |-> "admin"]
       IN IF CreateOutcome(doc) = "created"
          THEN /\ users' = [users EXCEPT ![NewUserId] = StoredUser(doc)]
               /\ resp' = [op |-> "registerAdmin", status |-> 201,
                           email |-> regReqs[i].email]
          ELSE /\ resp' = ErrorMiddleware("registerAdmin")
               /\ UNCHANGED users
    /\ regReqs' = DropReq(i)
    /\ UNCHANGED <<userSchema, awaiting, likeReqs, voiceCalls, sweeps, loginHistory, posts, nextPostId, follows,
                   comments, nextCommentId, tokens, notifs, fcmCalls,
                   failTasks, sessions, activities, now, prev>>

\* protect for a token that carries userData.email, up to the answer of
\* User.findOne({ email })
protectFind(tokenEmail) ==
    /\ Len(regReqs) < MaxReqs
    /\ IF EmailInUse(tokenEmail)
       THEN /\ resp' = [op |-> "protect",
                        status |-> IF \E u \in UserIds :
                                         /\ users[u] # NoDoc
                                         /\ users[u].email = CastEmail(tokenEmail)
                                         /\ ~users[u].isActive
                                   THEN 401 ELSE 200,
                        email |-> tokenEmail]
            /\ UNCHANGED regReqs
       ELSE /\ regReqs' = Append(regReqs,
                   [op |-> "protect", email |-> tokenEmail,
                    phone |-> NoPhone, user |-> NoUser])
            /\ UNCHANGED resp
    /\ UNCHANGED <<users, userSchema, awaiting, likeReqs, voiceCalls, sweeps, loginHistory, posts, nextPostId, follows,
                   comments, nextCommentId, tokens, notifs, fcmCalls,
                   failTasks, sessions, activities, now, prev>>

\* protect: the auto-registration User.create(newUserData)
protectCreate(i) ==
    /\ i \in DOMAIN regReqs
    /\ regReqs[i].op = "protect"
    /\ FreeUserIds # {}
    /\ LET doc == [userName |-> TRUE, email |-> regReqs[i].email,
                   phone |-> NoPhone, role |-> "USER"]
       IN IF CreateOutcome(doc) = "created"
          THEN /\ users' = [users EXCEPT ![NewUserId] = StoredUser(doc)]
               /\ resp' = [op |-> "protect", status |-> 200,
                           email |-> regReqs[i].email]
          ELSE /\ resp' = [op |-> "protect", status |-> 500,
                           email |-> regReqs[i].email]
               /\ UNCHANGED users
    /\ regReqs' = DropReq(i)
    /\ UNCHANGED <<userSchema, awaiting, likeReqs, voiceCalls, sweeps, loginHistory, posts, nextPostId, follows,
                   comments, nextCommentId, tokens, notifs, fcmCalls,
                   failTasks, sessions, activities, now, prev>>

InitRegister ==
    /\ EmptyDb
    /\ users = [u \in UserIds |-> NoDoc]
    /\ userSchema \in UserSchemas

NextRegister ==
    \/ \E e \in RawEmails, p \in Phones : registerCheck(e, p)
    \/ \E i \in 1..MaxReqs : registerCreate(i)
    \/ \E i \in 1..MaxReqs : registerHistory(i)
    \/ \E e \in RawEmails, p \in Phones, ok \in BOOLEAN :
          registerAdminCheck(e, p, ok)
    \/ \E i \in 1..MaxReqs : registerAdminCreate(i)
    \/ \E e \in RawEmails : protectFind(e)
    \/ \E i \in 1..MaxReqs : protectCreate(i)

SpecRegister == InitRegister /\ [][NextRegister]_vars

FollowedAuthors == {"u2", "u3"}

InitFeedFollow == EmptyDb /\ KnownUsers

NextFeedFollow ==
    \/ \E c \in FollowedAuthors : createPost(c, "text", "public", NoPollInput)
    \/ \E p \in PostIds : approvePost("u3", p)
    \/ \E b \in FollowedAuthors : followUser("u1", b)
    \/ \E b \in FollowedAuthors : unfollowUser("u1", b)
    \/ \E pg \in PageInputs, l \in LimitInputs : getPosts("u1", pg, l)

SpecFeedFollow == InitFeedFollow /\ [][NextFeedFollow]_vars

\* the place of post q on the answered page, 0 when it is not there
PlaceOnPage(page, q) ==
    IF \E i \in DOMAIN page : page[i].id = q
    THEN CHOOSE i \in DOMAIN page : page[i].id = q
    ELSE 0

\* C11: when u1 follows the author of a live, active post q, page 1 of
\* u1's feed contains q and places it before every post of an author u1
\* does not follow.
FollowedPostsComeFirst ==
    [][\A l \in LimitInputs, q \in PostIds :
          (/\ getPosts("u1", 1, l)
           /\ PostIsPublic(q)
           /\ follows[<<"u1", posts[q].user>>] > 0)
          => /\ PlaceOnPage(resp'.posts, q) > 0
             /\ \A i \in DOMAIN resp'.posts :
                   follows[<<"u1", resp'.posts[i].user>>] = 0
                   => PlaceOnPage(resp'.posts, q) < i
      ]_vars

\* ------------------------------------------------------------------------
\* Sends to several recipients: notificationService.js sendToMultipleUsers,
\* broadcast, sendToRole and their admin handlers
\* ------------------------------------------------------------------------
\* the order in which User.find returns the accounts
UserOrder == <<"u1", "u2", "u3">>

\* the lists of recipients a request may carry
UserIdLists ==
    {<<"u1">>, <<"u2">>, <<"u1", "u2">>, <<"u2", "u1">>, <<"u1", "u1">>,
     <<"u2", "u2">>}

NoneAfterError(userIds) == <<>>

\* the catch inside the loop: the loop goes on with the next recipient
RemainingAfterError(userIds) == Tail(userIds)

\* NotificationService.sendToMultipleUsers(userIds, notificationData, sentBy);
\* outcomes[i] is what the transport does for the i-th recipient
RECURSIVE SendToMultipleUsers(_, _, _, _, _)
SendToMultipleUsers(ns, tasks, calls, userIds, outcomes) ==
    IF userIds = <<>>
    THEN [notifs |-> ns, failTasks |-> tasks, fcmCalls |-> calls,
          successCount |-> 0, failureCount |-> 0]
    ELSE LET r == SendToUser(ns, tasks, calls, Head(userIds), Head(outcomes))
         IN IF r.error = ""
            THEN LET rest == SendToMultipleUsers(r.notifs, r.failTasks,
                                 r.fcmCalls, Tail(userIds), Tail(outcomes))
                 IN [rest EXCEPT !.successCount = @ + 1]
            ELSE LET left == RemainingAfterError(userIds)
                     rest == SendToMultipleUsers(r.notifs, r.failTasks,
                                 r.fcmCalls, left,
                                 SubSeq(outcomes, 2, Len(left) + 1))
                 IN [rest EXCEPT !.failureCount = @ + 1]

\* the records and tasks of a result stay within the bounds
FitsBounds(r) ==
    /\ Len(r.notifs) <= MaxNotifs
    /\ \A t \in TokenVals : Len(r.failTasks[t]) <= MaxTasks

\* the request is answered with the counts of the service
AnswerMultiple(op, caller, userIds, outcomes) ==
    /\ Len(outcomes) = Len(userIds)
    /\ IF AdminGate(caller) # 0
       THEN /\ resp' = [op |-> op, status |-> AdminGate(caller),
                        userIds |-> userIds,
                        successCount |-> 0, failureCount |-> 0]
            /\ UNCHANGED <<notifs, failTasks, fcmCalls>>
       ELSE LET r == SendToMultipleUsers(notifs, failTasks, fcmCalls,
                                         userIds, outcomes)
            IN /\ FitsBounds(r)
               /\ notifs' = r.notifs
               /\ failTasks' = r.failTasks
               /\ fcmCalls' = r.fcmCalls
               /\ resp' = [op |-> op, status |-> 200,
                           userIds |-> userIds,
                           successCount |-> r.successCount,
                           failureCount |-> r.failureCount]
    /\ UNCHANGED <<users, userSchema, awaiting, likeReqs, voiceCalls, sweeps, loginHistory, regReqs, posts,
                   nextPostId, follows, comments, nextCommentId, tokens,
                   sessions, activities, now, prev>>

\* POST /admin/notifications/send-multiple (sendNotificationToMultipleUsers)
sendNotificationToMultipleUsers(caller, userIds, outcomes) ==
    AnswerMultiple("sendNotificationToMultipleUsers", caller, userIds,
                   outcomes)

\* User.find({ isActive: true }).select('_id')
ActiveUserIds ==
    LET IsActive(u) == users[u] # NoDoc /\ users[u].isActive
    IN SelectSeq(UserOrder, IsActive)

\* User.find({ role, isActive: true }).select('_id')
ActiveUserIdsWithRole(role) ==
    LET Matches(u) ==
            users[u] # NoDoc /\ users[u].isActive /\ users[u].role = role
    IN SelectSeq(UserOrder, Matches)

\* POST /admin/notifications/broadcast (broadcastNotification)
broadcastNotification(caller, outcomes) ==
    AnswerMultiple("broadcastNotification", caller, ActiveUserIds, outcomes)

\* POST /admin/notifications/send-by-role (sendNotificationByRole)
sendNotificationByRole(caller, role, outcomes) ==
    AnswerMultiple("sendNotificationByRole", caller,
                   ActiveUserIdsWithRole(role), outcomes)

\* for each recipient the transport throws, refuses every token or accepts
\* every token
AllOrNothing ==
    {o \in TransportOutcomes : o.ok \in {{}, TokenVals}}

OutcomeLists(n) == [1..n -> AllOrNothing]

\* the transport does the same for every recipient of the list
SameForAll(userIds, o) == [i \in DOMAIN userIds |-> o]

InitMultiple == EmptyDb /\ KnownUsers

NextMultiple ==
    \/ registerDeviceToken("u1", "t1")
    \/ registerDeviceToken("u2", "t2")
    \/ \E t \in TokenVals : deactivateDeviceToken("u1", t)
    \/ \E ids \in UserIdLists : \E os \in OutcomeLists(Len(ids)) :
          sendNotificationToMultipleUsers("u3", ids, os)
    \/ \E o \in AllOrNothing :
          broadcastNotification("u3", SameForAll(ActiveUserIds, o))
    \/ \E role \in {"USER", "ADMIN"}, o \in AllOrNothing :
          sendNotificationByRole("u3", role,
              SameForAll(ActiveUserIdsWithRole(role), o))
    \/ \E t \in TokenVals, i \in 1..MaxTasks : markAsFailedFind(t, i)
    \/ \E t \in TokenVals, i \in 1..MaxTasks : markAsFailedSave(t, i)

SpecMultiple == InitMultiple /\ [][NextMultiple]_vars

\* the number of places of the list whose recipient has an active token
ReachTransport(userIds) ==
    Cardinality({i \in DOMAIN userIds : ActiveTokensOf(userIds[i]) # {}})

\* the number of places of the list for which sendToUser throws
Thrown(userIds, outcomes) ==
    Cardinality({i \in DOMAIN userIds :
        ActiveTokensOf(userIds[i]) = {} \/ outcomes[i].threw})

\* what the claim says of a send to the listed recipients
EveryRecipientProcessed(userIds, outcomes) ==
    /\ resp'.status = 200
    /\ resp'.successCount + resp'.failureCount = Len(userIds)
    /\ resp'.failureCount = Thrown(userIds, outcomes)
    /\ Len(notifs') = Len(notifs) + ReachTransport(userIds)
    /\ fcmCalls' = fcmCalls + ReachTransport(userIds)

\* C13: a send to several recipients runs sendToUser once for every
\* listed recipient, also after one of them ended in an error, and the
\* counts it answers with add up to the number of listed recipients; the
\* same for broadcast and for the send by role.
MultipleSendProcessesAll ==
    [][/\ \A ids \in UserIdLists :
             (resp'.op = "sendNotificationToMultipleUsers"
                 /\ resp'.userIds = ids)
             => \A os \in OutcomeLists(Len(ids)) :
                   sendNotificationToMultipleUsers("u3", ids, os)
                   => EveryRecipientProcessed(ids, os)
       /\ resp'.op = "broadcastNotification"
          => \A o \in AllOrNothing :
                broadcastNotification("u3", SameForAll(UserOrder, o))
                => EveryRecipientProcessed(UserOrder,
                                           SameForAll(UserOrder, o))
       /\ resp'.op = "sendNotificationByRole"
          => \A o \in AllOrNothing :
                /\ sendNotificationByRole("u3", "ADMIN", <<o>>)
                   => EveryRecipientProcessed(<<"u3">>, <<o>>)
                /\ sendNotificationByRole("u3", "USER", <<o, o>>)
                   => EveryRecipientProcessed(<<"u1", "u2">>, <<o, o>>)
      ]_vars

\* C13: a send listed a recipient without an active token first and a
\* recipient with one after it, and the second was delivered
SecondDeliveredAfterFirstFailed ==
    /\ resp.op = "sendNotificationToMultipleUsers"
    /\ resp.status = 200
    /\ resp.successCount = 1
    /\ resp.failureCount = 1
    /\ Len(notifs) = 1
    /\ notifs[1].recipient = "u2"
    /\ notifs[1].deliveryStatus = "sent"
    /\ tokens["t1"] = NoDoc

\* ------------------------------------------------------------------------
\* Scheduled notifications: notificationService.js scheduleNotification
\* and processScheduledNotifications, notificationScheduler.js
\* ------------------------------------------------------------------------
\* POST /admin/notifications/schedule (scheduleNotification)
scheduleNotification(caller, userId, scheduledFor) ==
    /\ Len(notifs) < MaxNotifs
    /\ IF AdminGate(caller) # 0
       THEN /\ resp' = [op |-> "scheduleNotification",
                        status |-> AdminGate(caller)]
            /\ UNCHANGED notifs
       ELSE IF scheduledFor < now
       THEN /\ resp' = [op |-> "scheduleNotification", status |-> 400]
            /\ UNCHANGED notifs
       ELSE /\ notifs' = Append(notifs,
                   [NewNotification(userId) EXCEPT
                       !.isScheduled = TRUE, !.scheduledFor = scheduledFor])
            /\ resp' = [op |-> "scheduleNotification", status |-> 200]
    /\ UNCHANGED <<users, userSchema, awaiting, likeReqs, voiceCalls, sweeps, loginHistory, regReqs, posts,
                   nextPostId, follows, comments, nextCommentId, tokens,
                   fcmCalls, failTasks, sessions, activities, now, prev>>

\* DELETE /admin/notifications/:id (deleteNotification):
\* findByIdAndUpdate(id, { isActive: false })
deleteNotification(caller, id) ==
    /\ IF AdminGate(caller) # 0
       THEN /\ resp' = [op |-> "deleteNotification",
                        status |-> AdminGate(caller)]
            /\ UNCHANGED notifs
       ELSE IF id \notin DOMAIN notifs
       THEN /\ resp' = [op |-> "deleteNotification", status |-> 404]
            /\ UNCHANGED notifs
       ELSE /\ notifs' = [notifs EXCEPT ![id].isActive = FALSE]
            /\ resp' = [op |-> "deleteNotification", status |-> 200]
    /\ UNCHANGED <<users, userSchema, awaiting, likeReqs, voiceCalls, sweeps, loginHistory, regReqs, posts,
                   nextPostId, follows, comments, nextCommentId, tokens,
                   fcmCalls, failTasks, sessions, activities, now, prev>>

\* Notification.find({ isScheduled: true, scheduledFor: { $lte: now },
\*                     deliveryStatus: 'pending', isActive: true })
DueNotifications ==
    {id \in DOMAIN notifs :
        /\ notifs[id].isScheduled
        /\ notifs[id].scheduledFor <= now
        /\ notifs[id].deliveryStatus = "pending"
        /\ notifs[id].isActive}

RECURSIVE SeqOfSetAsc(_)
SeqOfSetAsc(S) ==
    IF S = {} THEN <<>>
    ELSE LET m == CHOOSE x \in S : \A y \in S : x <= y
         IN <<m>> \o SeqOfSetAsc(S \ {m})

\* the cron callback starts a run: processScheduledNotifications up to the
\* answer of Notification.find; a run that finds nothing ends at once
sweepFind ==
    /\ Len(sweeps) < MaxSweeps
    /\ DueNotifications # {}
    /\ sweeps' = Append(sweeps, [found |-> DueNotifications,
                                 todo |-> SeqOfSetAsc(DueNotifications)])
    /\ UNCHANGED <<users, userSchema, awaiting, likeReqs, voiceCalls, loginHistory, regReqs, posts,
                   nextPostId, follows, comments, nextCommentId, tokens,
                   notifs, fcmCalls, failTasks, sessions, activities, now,
                   resp, prev>>

DropSweep(r) == SubSeq(sweeps, 1, r - 1) \o SubSeq(sweeps, r + 1, Len(sweeps))

\* the run is over after this turn of the loop
LastTurn(r) == Len(sweeps[r].todo) = 1

\* room for the record and the tasks a turn of the loop may add
FitsSweep(r) ==
    /\ Len(r.notifs) <= MaxSweepRecords
    /\ \A t \in TokenVals : Len(r.failTasks[t]) <= MaxTasks

\* one turn of the loop of processScheduledNotifications: sendToUser for
\* the recipient of the notification and, when it did not throw,
\* notification.isScheduled = false with notification.save()
sweepSend(r, outcome) ==
    /\ r \in DOMAIN sweeps
    /\ LET id == Head(sweeps[r].todo)
           sent == SendToUser(notifs, failTasks, fcmCalls,
                              notifs[id].recipient, outcome)
       IN /\ FitsSweep(sent)
          /\ notifs' = IF sent.error = ""
                       THEN [sent.notifs EXCEPT ![id].isScheduled = FALSE]
                       ELSE sent.notifs
          /\ failTasks' = sent.failTasks
          /\ fcmCalls' = sent.fcmCalls
    /\ sweeps' = IF LastTurn(r) THEN DropSweep(r)
                 ELSE [sweeps EXCEPT ![r].todo = Tail(@)]
    /\ UNCHANGED <<users, userSchema, awaiting, likeReqs, voiceCalls, loginHistory, regReqs, posts,
                   nextPostId, follows, comments, nextCommentId, tokens,
                   sessions, activities, now, resp, prev>>

InitSched == EmptyDb /\ KnownUsers

NextSched ==
    \/ registerDeviceToken("u1", "t1")
    \/ deactivateDeviceToken("u1", "t1")
    \/ \E u \in {"u1", "u2"}, at \in 0..MaxNow :
          scheduleNotification("u3", u, at)
    \/ \E id \in 1..MaxNotifs : deleteNotification("u3", id)
    \/ sweepFind
    \/ \E r \in 1..MaxSweeps, o \in AllOrNothing : sweepSend(r, o)
    \/ \E i \in 1..MaxTasks : markAsFailedFind("t1", i)
    \/ \E i \in 1..MaxTasks : markAsFailedSave("t1", i)
    \/ Tick

SpecSched == InitSched /\ [][NextSched]_vars

\* C14: when a run of processScheduledNotifications ends, every
\* notification the run found (scheduled, due, pending and active at its
\* start) has isScheduled = false, whatever became of its delivery.
SweepClearsScheduledFlag ==
    [][\A r \in 1..MaxSweeps, o \in AllOrNothing :
          (sweepSend(r, o) /\ LastTurn(r))
          => \A id \in sweeps[r].found : ~notifs'[id].isScheduled
      ]_vars

\* C27: when the sweep delivers scheduled notification N the outcome is
\* recorded on N, which becomes 'sent' or 'failed', and the collection
\* gains no record.
SweepRecordsOutcomeOnScheduled ==
    [][\A r \in 1..MaxSweeps, o \in AllOrNothing :
          (sweepSend(r, o) /\ ~o.threw /\ fcmCalls' = fcmCalls + 1)
          => /\ Len(notifs') = Len(notifs)
             /\ notifs'[Head(sweeps[r].todo)].deliveryStatus
                   \in {"sent", "failed"}
      ]_vars

\* the notifications that scheduleNotification created
ScheduledRecords == {id \in DOMAIN notifs : notifs[id].scheduledFor # NoTime}

\* C23: the sweep hands each scheduled notification to the push transport
\* at most once: the sweep being the only sender here, the transport has
\* been called at most as often as there are scheduled notifications.
SweepHandsOverAtMostOnce == fcmCalls <= Cardinality(ScheduledRecords)

\* ------------------------------------------------------------------------
\* The life of a session: trackingService.js autoTrackScreen and
\* expireIdleSessions, UserSession.js checkExpiry
\* ------------------------------------------------------------------------
\* 30 * 60 * 1000
IdleLimitMs == 1800000

\* a long time without a request: once, the clock jumps past the idle limit
WaitLong ==
    /\ now <= MaxNow * WaitMs
    /\ now' = now + IdleLimitMs + WaitMs
    /\ UNCHANGED <<users, userSchema, awaiting, likeReqs, voiceCalls, sweeps, loginHistory, regReqs, posts,
                   nextPostId, follows, comments, nextCommentId, tokens,
                   notifs, fcmCalls, failTasks, sessions, activities, resp,
                   prev>>

\* TrackingService.autoTrackScreen(userId, sessionId, screenName, options)
autoTrackScreen(userId, sessionId, screenName, previousScreen) ==
    /\ Len(activities) < MaxActivities
    /\ LET found == IF previousScreen = NoScreen THEN {}
                    ELSE LatestEntered(OpenActivitiesNamed(
                             sessionId, userId, previousScreen))
       IN \E prevActivity \in IF found = {} THEN {0} ELSE found :
          LET exited == IF prevActivity = 0 THEN activities
                        ELSE [activities EXCEPT ![prevActivity] =
                                 ExitScreen(@, screenName)]
          IN activities' = Append(exited,
                               NewActivity(sessionId, userId, screenName))
    /\ sessions' = IF sessionId \in DOMAIN sessions
                   THEN [sessions EXCEPT
                            ![sessionId].totalScreens = @ + 1,
                            ![sessionId].lastActivityTime = now,
                            ![sessionId].status = "active"]
                   ELSE sessions
    /\ UNCHANGED <<users, userSchema, awaiting, likeReqs, voiceCalls, sweeps, loginHistory, regReqs, posts,
                   nextPostId, follows, comments, nextCommentId, tokens,
                   notifs, fcmCalls, failTasks, now, resp, prev>>

\* userSessionSchema.methods.checkExpiry
CheckExpiry(s) ==
    IF s.status = "active" /\ s.lastActivityTime < now - IdleLimitMs
    THEN [s EXCEPT !.status = "expired", !.endTime = s.lastActivityTime,
                   !.totalDuration =
                       DurationSeconds(s.startTime, s.lastActivityTime)]
    ELSE s

\* TrackingService.expireIdleSessions(inactivityMinutes): checkExpiry for
\* every active session idle for longer than the given time
expireIdleSessions(inactivityMs) ==
    /\ sessions' = [i \in DOMAIN sessions |->
                      IF /\ sessions[i].status = "active"
                         /\ sessions[i].lastActivityTime < now - inactivityMs
                      THEN CheckExpiry(sessions[i])
                      ELSE sessions[i]]
    /\ UNCHANGED <<users, userSchema, awaiting, likeReqs, voiceCalls, sweeps, loginHistory, regReqs, posts,
                   nextPostId, follows, comments, nextCommentId, tokens,
                   notifs, fcmCalls, failTasks, activities, now, resp, prev>>

InitSessionLife == EmptyDb /\ KnownUsers

NextSessionLife ==
    \/ startSession("u1")
    \/ \E sid \in 1..MaxSessions, name \in ScreenNames,
          before \in {NoScreen, "login"} :
          trackScreen("u1", sid, name, before)
    \/ \E sid \in 1..MaxSessions : endSession("u1", sid)
    \/ \E sid \in 1..MaxSessions, name \in ScreenNames,
          before \in {NoScreen, "login"} :
          autoTrackScreen("u1", sid, name, before)
    \/ \E ms \in {WaitMs, IdleLimitMs} : expireIdleSessions(ms)
    \/ Wait
    \/ WaitLong

SpecSessionLife == InitSessionLife /\ [][NextSessionLife]_vars

\* C16: a session that is 'expired' or 'logged_out' keeps that status
\* whatever request is served next.
TerminatedSessionStaysTerminated ==
    [][\A sid \in DOMAIN sessions :
          sessions[sid].status \in {"expired", "logged_out"}
          => sessions'[sid].status = sessions[sid].status
      ]_vars

\* C17: in every state a session that is 'logged_out' or 'expired' has no
\* activity with exitedAt unset.
ClosedSessionHasNoOpenActivity ==
    \A sid \in DOMAIN sessions :
        sessions[sid].status \in {"expired", "logged_out"}
        => OpenActivities(sid) = {}

\* ------------------------------------------------------------------------
\* Voice calls: voiceCallController.js, VoiceCall.js, voiceCallRoutes.js
\* ------------------------------------------------------------------------
CallIds == 1..MaxCalls

\* voiceCallSchema.pre('save'): the duration follows the two timestamps
\* whenever both are set
CallPreSave(c) ==
    IF c.endTime # NoTime /\ c.startTime # NoTime
    THEN [c EXCEPT !.duration = DurationSeconds(c.startTime, c.endTime)]
    ELSE c

\* VoiceCall.create({ caller, receiver, status }): startTime defaults to
\* Date.now, endTime is unset, duration defaults to 0
NewCall(caller, receiverId, status) ==
    CallPreSave([caller |-> caller, receiver |-> receiverId,
                 status |-> status, startTime |-> now, endTime |-> NoTime,
                 duration |-> 0])

OtherThanCalls ==
    <<users, userSchema, awaiting, likeReqs, sweeps, loginHistory, regReqs, posts, nextPostId,
      follows, comments, nextCommentId, tokens, notifs, fcmCalls, failTasks,
      sessions, activities, now, prev>>

\* the answer of a call request: it names the request and the call
AnswerCallRequest(op, id, status) ==
    resp' = [op |-> op, status |-> status, callId |-> id]

\* POST /voice-calls/initiate (protect, authorize('admin'), initiateCall)
initiateCall(caller, receiverId) ==
    /\ Len(voiceCalls) < MaxCalls
    /\ IF AdminGate(caller) # 0
       THEN /\ AnswerCallRequest("initiateCall", 0, AdminGate(caller))
            /\ UNCHANGED voiceCalls
       ELSE IF users[receiverId] = NoDoc
       THEN /\ AnswerCallRequest("initiateCall", 0, 404)
            /\ UNCHANGED voiceCalls
       ELSE /\ voiceCalls' =
                  Append(voiceCalls, NewCall(caller, receiverId, "initiated"))
            /\ AnswerCallRequest("initiateCall", Len(voiceCalls) + 1, 200)
    /\ UNCHANGED OtherThanCalls

\* POST /voice-calls/user-call (protect, userToUserCall)
userToUserCall(caller, receiverId) ==
    /\ Len(voiceCalls) < MaxCalls
    /\ IF ~Protect(caller)
       THEN /\ AnswerCallRequest("userToUserCall", 0, 401)
            /\ UNCHANGED voiceCalls
       ELSE IF users[receiverId] = NoDoc
       THEN /\ AnswerCallRequest("userToUserCall", 0, 404)
            /\ UNCHANGED voiceCalls
       ELSE IF receiverId = caller
       THEN /\ AnswerCallRequest("userToUserCall", 0, 400)
            /\ UNCHANGED voiceCalls
       ELSE /\ voiceCalls' =
                  Append(voiceCalls, NewCall(caller, receiverId, "ringing"))
            /\ AnswerCallRequest("userToUserCall", Len(voiceCalls) + 1, 200)
    /\ UNCHANGED OtherThanCalls

\* POST /voice-calls/:callId/answer (protect, answerCall)
answerCall(caller, id) ==
    /\ IF ~Protect(caller)
       THEN /\ AnswerCallRequest("answerCall", id, 401)
            /\ UNCHANGED voiceCalls
       ELSE IF id \notin DOMAIN voiceCalls
       THEN /\ AnswerCallRequest("answerCall", id, 404)
            /\ UNCHANGED voiceCalls
       ELSE IF voiceCalls[id].receiver # caller
       THEN /\ AnswerCallRequest("answerCall", id, 403)
            /\ UNCHANGED voiceCalls
       ELSE /\ voiceCalls' =
                  [voiceCalls EXCEPT ![id] =
                      CallPreSave([@ EXCEPT !.status = "answered",
                                            !.startTime = now])]
            /\ AnswerCallRequest("answerCall", id, 200)
    /\ UNCHANGED OtherThanCalls

\* POST /voice-calls/:callId/end (protect, endCall)
endCall(caller, id) ==
    /\ IF ~Protect(caller)
       THEN /\ AnswerCallRequest("endCall", id, 401)
            /\ UNCHANGED voiceCalls
       ELSE IF id \notin DOMAIN voiceCalls
       THEN /\ AnswerCallRequest("endCall", id, 404)
            /\ UNCHANGED voiceCalls
       ELSE IF caller \notin {voiceCalls[id].caller, voiceCalls[id].receiver}
       THEN /\ AnswerCallRequest("endCall", id, 403)
            /\ UNCHANGED voiceCalls
       ELSE /\ LET call == voiceCalls[id]
                    duration == IF call.startTime # NoTime
                                THEN DurationSeconds(call.startTime, now)
                                ELSE call.duration
                IN voiceCalls' =
                      [voiceCalls EXCEPT ![id] =
                          CallPreSave([call EXCEPT !.status = "ended",
                                                   !.endTime = now,
                                                   !.duration = duration])]
            /\ AnswerCallRequest("endCall", id, 200)
    /\ UNCHANGED OtherThanCalls

\* POST /voice-calls/:callId/reject (protect, rejectCall)
rejectCall(caller, id) ==
    /\ IF ~Protect(caller)
       THEN /\ AnswerCallRequest("rejectCall", id, 401)
            /\ UNCHANGED voiceCalls
       ELSE IF id \notin DOMAIN voiceCalls
       THEN /\ AnswerCallRequest("rejectCall", id, 404)
            /\ UNCHANGED voiceCalls
       ELSE IF voiceCalls[id].receiver # caller
       THEN /\ AnswerCallRequest("rejectCall", id, 403)
            /\ UNCHANGED voiceCalls
       ELSE /\ voiceCalls' =
                  [voiceCalls EXCEPT ![id] =
                      CallPreSave([@ EXCEPT !.status = "rejected",
                                            !.endTime = now])]
            /\ AnswerCallRequest("rejectCall", id, 200)
    /\ UNCHANGED OtherThanCalls

InitCalls == EmptyDb /\ KnownUsers

NextCalls ==
    \/ \E receiverId \in UserIds : initiateCall("u3", receiverId)
    \/ \E caller \in UserIds, receiverId \in UserIds :
          userToUserCall(caller, receiverId)
    \/ \E caller \in UserIds, id \in CallIds : answerCall(caller, id)
    \/ \E caller \in UserIds, id \in CallIds : endCall(caller, id)
    \/ \E caller \in UserIds, id \in CallIds : rejectCall(caller, id)
    \/ Wait

SpecCalls == InitCalls /\ [][NextCalls]_vars

\* the statuses a call is finished in
FinishedStatuses == {"ended", "rejected", "missed", "failed"}

\* C19: once a call is ended, rejected, missed or failed no request changes
\* its status, and no rejectCall request changes the status of a call that
\* was already answered.
CallStatusFollowsStateMachine ==
    [][\A id \in DOMAIN voiceCalls :
          /\ voiceCalls[id].status \in FinishedStatuses
             => voiceCalls'[id].status = voiceCalls[id].status
          /\ (voiceCalls[id].status = "answered"
              /\ resp'.op = "rejectCall" /\ resp'.callId = id)
             => voiceCalls'[id].status = "answered"
      ]_vars

\* C20: in every state a call that has an endTime has
\* duration = floor((endTime - startTime) / 1000), the duration is not
\* negative and the startTime does not lie after the endTime.
CallDurationFollowsTimestamps ==
    \A id \in DOMAIN voiceCalls :
        voiceCalls[id].endTime # NoTime
        => /\ voiceCalls[id].duration =
                 (voiceCalls[id].endTime - voiceCalls[id].startTime)
                     \div MsPerSecond
           /\ voiceCalls[id].duration >= 0
           /\ voiceCalls[id].startTime <= voiceCalls[id].endTime

\* ------------------------------------------------------------------------
\* An admin-only route behind protect and authorize:
\* authMiddleware.js, adminTrackingRoutes.js
\* ------------------------------------------------------------------------
TokenRoles == {"admin", "USER", "none"}

\* String.prototype.toUpperCase on the role strings in use
UpperRole(role) ==
    CASE role \in {"admin", "ADMIN"} -> "ADMIN"
      [] role \in {"user", "USER"} -> "USER"
      [] OTHER -> role

\* protect: the role of the auto-registered account, taken from the token
\* when it names USER or ADMIN in any case, 'USER' otherwise
AutoRegisterRole(tokenRole) ==
    IF UpperRole(tokenRole) \in {"USER", "ADMIN"}
    THEN UpperRole(tokenRole)
    ELSE "USER"

\* authorize(...roles) on req.user: 403 unless the upper-cased role is one
\* of the upper-cased roles given, 0 when the request goes on
AuthorizeStatus(userRole, roles) ==
    IF UpperRole(userRole) \notin {UpperRole(r) : r \in roles} THEN 403 ELSE 0

\* the account User.findOne({ email }) returns
UserWithEmail(email) ==
    CHOOSE u \in UserIds : users[u] # NoDoc /\ users[u].email = CastEmail(email)

\* protect's checks on the account it found or created, then authorize('ADMIN'),
\* then a handler of adminTrackingController that only reads
AdminRouteStatus(user) ==
    IF ~user.isActive THEN 401
    ELSE IF AuthorizeStatus(user.role, {"ADMIN"}) # 0
    THEN AuthorizeStatus(user.role, {"ADMIN"})
    ELSE 200

\* GET /admin/tracking/... with a token that carries userData.email, up to
\* the answer of protect's User.findOne({ email })
adminTrackingFind(tokenEmail, tokenRole) ==
    /\ Len(regReqs) < MaxReqs
    /\ IF EmailInUse(tokenEmail)
       THEN /\ resp' = [op |-> "adminTracking",
                        status |-> AdminRouteStatus(
                                       users[UserWithEmail(tokenEmail)]),
                        email |-> tokenEmail]
            /\ UNCHANGED regReqs
       ELSE /\ regReqs' = Append(regReqs,
                   [op |-> "adminTracking", email |-> tokenEmail,
                    phone |-> NoPhone, user |-> NoUser,
                    role |-> AutoRegisterRole(tokenRole)])
            /\ UNCHANGED resp
    /\ UNCHANGED <<users, userSchema, awaiting, likeReqs, voiceCalls, sweeps, loginHistory, posts,
                   nextPostId, follows, comments, nextCommentId, tokens,
                   notifs, fcmCalls, failTasks, sessions, activities, now,
                   prev>>

\* the same request from protect's User.create(newUserData) to its answer
adminTrackingCreate(i) ==
    /\ i \in DOMAIN regReqs
    /\ regReqs[i].op = "adminTracking"
    /\ FreeUserIds # {}
    /\ LET doc == [userName |-> TRUE, email |-> regReqs[i].email,
                   phone |-> NoPhone, role |-> regReqs[i].role]
       IN IF CreateOutcome(doc) = "created"
          THEN /\ users' = [users EXCEPT ![NewUserId] = StoredUser(doc)]
               /\ resp' = [op |-> "adminTracking",
                           status |-> AdminRouteStatus(StoredUser(doc)),
                           email |-> regReqs[i].email]
          ELSE /\ resp' = [op |-> "adminTracking", status |-> 500,
                           email |-> regReqs[i].email]
               /\ UNCHANGED users
    /\ regReqs' = DropReq(i)
    /\ UNCHANGED <<userSchema, awaiting, likeReqs, voiceCalls, sweeps, loginHistory, posts,
                   nextPostId, follows, comments, nextCommentId, tokens,
                   notifs, fcmCalls, failTasks, sessions, activities, now,
                   prev>>

InitAdminRoute ==
    /\ EmptyDb
    /\ users = [u \in UserIds |-> NoDoc]
    /\ userSchema \in UserSchemas

NextAdminRoute ==
    \/ \E e \in RawEmails, r \in TokenRoles : adminTrackingFind(e, r)
    \/ \E i \in 1..MaxReqs : adminTrackingCreate(i)
    \/ \E e \in RawEmails, p \in Phones : registerCheck(e, p)
    \/ \E i \in 1..MaxReqs : registerCreate(i)
    \/ \E i \in 1..MaxReqs : registerHistory(i)

SpecAdminRoute == InitAdminRoute /\ [][NextAdminRoute]_vars

\* the statuses of a validation or authorization error
RefusalStatuses == {400, 401, 403}

\* C21: a request to the admin-only route that is answered with 400, 401
\* or 403 leaves the stored collections as they were; a token for an
\* unknown email whose role authorize refuses adds no User.
RefusedRequestChangesNothing ==
    [][((\E e \in RawEmails, r \in TokenRoles : adminTrackingFind(e, r))
         \/ (\E i \in 1..MaxReqs : adminTrackingCreate(i)))
       /\ resp'.op = "adminTracking"
       /\ resp'.status \in RefusalStatuses
       => users' = users /\ loginHistory' = loginHistory
      ]_vars

\* ------------------------------------------------------------------------
\* A device token that keeps failing: DeviceToken.js markAsFailed with
\* notificationService.js sendToUser
\* ------------------------------------------------------------------------
\* the failures a token may have behind it, short of the threshold
FailedBefore == 0..(FailureThreshold - 1)

InitTokenFail ==
    /\ EmptyButTokens
    /\ KnownUsers
    /\ \E c \in FailedBefore :
          tokens = [t \in TokenVals |->
                      IF t = "t1"
                      THEN [user |-> "u1", isActive |-> TRUE,
                            failureCount |-> c]
                      ELSE NoDoc]

NextTokenFail ==
    \/ registerDeviceToken("u1", "t1")
    \/ deactivateDeviceToken("u1", "t1")
    \/ \E o \in AllOrNothing : sendNotificationToUser("u3", "u1", o)
    \/ \E i \in 1..MaxTasks : markAsFailedFind("t1", i)
    \/ \E i \in 1..MaxTasks : markAsFailedSave("t1", i)

SpecTokenFail == InitTokenFail /\ [][NextTokenFail]_vars

\* C22: in every state a token whose failureCount has reached 5 is
\* inactive, so that no sendToUser passes it to the transport.
FailedTokenIsInactive ==
    \A t \in TokenVals :
        (tokens[t] # NoDoc /\ tokens[t].failureCount >= FailureThreshold)
        => ~tokens[t].isActive

\* ------------------------------------------------------------------------
\* Likes of a post: postController.js likePost, Post.js
\* ------------------------------------------------------------------------
\* post.likes.findIndex(l => l.user.toString() === userIdStr), 0 for -1
LikeIndex(likes, userId) ==
    IF \E i \in DOMAIN likes : likes[i] = userId
    THEN CHOOSE i \in DOMAIN likes :
             likes[i] = userId /\ \A j \in 1..(i - 1) : likes[j] # userId
    ELSE 0

\* post.likes.splice(index, 1)
Splice(likes, index) ==
    SubSeq(likes, 1, index - 1) \o SubSeq(likes, index + 1, Len(likes))

OverwriteLikes(stored, loaded, userId) == Append(loaded, userId)

\* post.likes.push({ user }) followed by post.save(): the save sends the
\* push as an update of the stored array, not the array it loaded
PushLike(stored, loaded, userId) == Append(stored, userId)

DropLikeReq(i) ==
    SubSeq(likeReqs, 1, i - 1) \o SubSeq(likeReqs, i + 1, Len(likeReqs))

OtherThanLikes ==
    <<users, userSchema, awaiting, voiceCalls, sweeps, loginHistory, regReqs,
      nextPostId, follows, comments, nextCommentId, tokens, notifs, fcmCalls,
      failTasks, sessions, activities, now, prev>>

\* POST /posts/:id/like (protect, likePost), up to the answer of
\* Post.findById
likePostFind(caller, id) ==
    /\ Len(likeReqs) < MaxLikeReqs
    /\ posts[id] # NoDoc => posts[id].version + Len(likeReqs) < MaxVersion
    /\ IF ~Protect(caller)
       THEN /\ resp' = [op |-> "likePost", status |-> 401]
            /\ UNCHANGED likeReqs
       ELSE IF posts[id] = NoDoc \/ posts[id].status # "live"
       THEN /\ resp' = [op |-> "likePost", status |-> 404]
            /\ UNCHANGED likeReqs
       ELSE /\ likeReqs' = Append(likeReqs,
                   [user |-> caller, post |-> id, likes |-> posts[id].likes,
                    version |-> posts[id].version])
            /\ UNCHANGED resp
    /\ UNCHANGED posts
    /\ UNCHANGED OtherThanLikes

\* likePost from findIndex to its answer. The save of a push adds the like
\* to the stored array and moves the version on; the save of a splice
\* replaces the array and is refused when the version has moved since the
\* document was loaded (the error middleware answers 500).
likePostSave(i) ==
    /\ i \in DOMAIN likeReqs
    /\ LET r == likeReqs[i]
           index == LikeIndex(r.likes, r.user)
       IN IF posts[r.post] = NoDoc
          THEN /\ resp' = ErrorMiddleware("likePost")
               /\ UNCHANGED posts
          ELSE IF index > 0
          THEN IF posts[r.post].version # r.version
               THEN /\ resp' = ErrorMiddleware("likePost")
                    /\ UNCHANGED posts
               ELSE /\ posts' = [posts EXCEPT
                                    ![r.post].likes = Splice(r.likes, index),
                                    ![r.post].version = @ + 1]
                    /\ resp' = [op |-> "likePost", status |-> 200,
                                user |-> r.user, post |-> r.post,
                                liked |-> FALSE,
                                likesCount |-> Len(r.likes) - 1]
          ELSE /\ posts' = [posts EXCEPT
                               ![r.post].likes =
                                   PushLike(@, r.likes, r.user),
                               ![r.post].version = @ + 1]
               /\ resp' = [op |-> "likePost", status |-> 200,
                           user |-> r.user, post |-> r.post,
                           liked |-> TRUE, likesCount |-> Len(r.likes) + 1]
    /\ likeReqs' = DropLikeReq(i)
    /\ UNCHANGED OtherThanLikes

Likers == {"u1", "u2"}

InitLikes == EmptyDb /\ KnownUsers

NextLikes ==
    \/ createPost("u1", "text", "public", NoPollInput)
    \/ \E p \in PostIds : approvePost("u3", p)
    \/ \E c \in Likers, p \in PostIds : likePostFind(c, p)
    \/ \E i \in 1..MaxLikeReqs : likePostSave(i)

SpecLikes == InitLikes /\ [][NextLikes]_vars

\* how often the user is in the list
LikesOf(likes, userId) ==
    Cardinality({i \in DOMAIN likes : likes[i] = userId})

\* C24 as stated: likePost writes back the list it read with its own like
\* added, so that a like saved since it read the post is lost.
LikeSaveWritesBackWhatItRead ==
    [][\A i \in 1..MaxLikeReqs :
          (likePostSave(i) /\ resp'.status = 200 /\ resp'.liked)
          => posts'[likeReqs[i].post].likes =
                 Append(likeReqs[i].likes, likeReqs[i].user)
      ]_vars

\* C24, amended: the save of a like changes no other user's likes, also
\* when it read the post before another like was saved: both likes are
\* stored.
LikeSaveKeepsOtherLikes ==
    [][\A i \in 1..MaxLikeReqs :
          (likePostSave(i) /\ resp'.status = 200)
          => \A u \in UserIds \ {likeReqs[i].user} :
                LikesOf(posts'[likeReqs[i].post].likes, u)
                    = LikesOf(posts[likeReqs[i].post].likes, u)
      ]_vars

\* C24: two likes of different users that both read the post before
\* either was saved are both stored; the second answer still counts one
BothInterleavedLikesStored ==
    /\ resp.op = "likePost"
    /\ resp.status = 200
    /\ resp.liked
    /\ resp.likesCount = 1
    /\ LikesOf(posts[resp.post].likes, "u1") = 1
    /\ LikesOf(posts[resp.post].likes, "u2") = 1

\* ------------------------------------------------------------------------
\* Editing and liking comments: commentController.js updateComment,
\* likeComment, with the post('save') hook of Comment.js
\* ------------------------------------------------------------------------
\* comment.save() of a loaded comment, with the hook that follows it
SaveComment(id, doc) ==
    CommentSaveHook(posts, [comments EXCEPT ![id] = doc], doc)

\* PUT /comments/:id (protect, updateComment)
updateComment(caller, id, hasText) ==
    /\ IF ~Protect(caller)
       THEN /\ resp' = [op |-> "updateComment", status |-> 401]
            /\ UNCHANGED <<posts, comments>>
       ELSE IF ~hasText
       THEN /\ resp' = [op |-> "updateComment", status |-> 400]
            /\ UNCHANGED <<posts, comments>>
       ELSE IF comments[id] = NoDoc \/ ~comments[id].isActive
       THEN /\ resp' = [op |-> "updateComment", status |-> 404]
            /\ UNCHANGED <<posts, comments>>
       ELSE IF comments[id].user # caller /\ users[caller].role # "admin"
       THEN /\ resp' = [op |-> "updateComment", status |-> 403]
            /\ UNCHANGED <<posts, comments>>
       ELSE LET db == SaveComment(id, [comments[id] EXCEPT
                                          !.isEdited = TRUE])
            IN /\ CountsInRange(db)
               /\ posts' = db.posts
               /\ comments' = db.comments
               /\ resp' = [op |-> "updateComment", status |-> 200]
    /\ UNCHANGED <<users, loginHistory, regReqs, userSchema, awaiting, likeReqs,
                   voiceCalls, sweeps, nextPostId, nextCommentId, follows,
                   tokens, notifs, fcmCalls, failTasks, sessions,
                   activities, now, prev>>

\* POST /comments/:id/like (protect, likeComment)
likeComment(caller, id) ==
    /\ IF ~Protect(caller)
       THEN /\ resp' = [op |-> "likeComment", status |-> 401]
            /\ UNCHANGED <<posts, comments>>
       ELSE IF comments[id] = NoDoc \/ ~comments[id].isActive
       THEN /\ resp' = [op |-> "likeComment", status |-> 404]
            /\ UNCHANGED <<posts, comments>>
       ELSE LET liked == caller \in comments[id].likes
                db == SaveComment(id, [comments[id] EXCEPT
                         !.likes = IF liked THEN @ \ {caller}
                                   ELSE @ \cup {caller}])
            IN /\ CountsInRange(db)
               /\ posts' = db.posts
               /\ comments' = db.comments
               /\ resp' = [op |-> "likeComment", status |-> 200]
    /\ UNCHANGED <<users, loginHistory, regReqs, userSchema, awaiting, likeReqs,
                   voiceCalls, sweeps, nextPostId, nextCommentId, follows,
                   tokens, notifs, fcmCalls, failTasks, sessions,
                   activities, now, prev>>

InitCommentEdits == EmptyDb /\ KnownUsers

NextCommentEdits ==
    \/ createPost("u1", "text", "public", NoPollInput)
    \/ \E c \in {"u1", "u2"}, p \in PostIds,
          par \in {NoParent} \cup CommentIds : createComment(c, p, par)
    \/ \E c \in {"u1", "u2"}, id \in CommentIds, hasText \in BOOLEAN :
          updateComment(c, id, hasText)
    \/ \E c \in {"u1", "u2"}, id \in CommentIds : likeComment(c, id)
    \/ \E c \in {"u1", "u2"}, id \in CommentIds : deleteComment(c, id)

SpecCommentEdits == InitCommentEdits /\ [][NextCommentEdits]_vars

\* the comments that exist: stored and not deleted
ExistingComments ==
    {c \in CommentIds : comments[c] # NoDoc /\ comments[c].isActive}

\* C25: in every state commentsCount of a post is the number of its
\* existing top-level comments and repliesCount of a comment is the number
\* of its existing replies.
CountersMatchComments ==
    /\ \A p \in PostIds :
          posts[p] # NoDoc
          => posts[p].commentsCount =
                Cardinality({c \in ExistingComments :
                                /\ comments[c].post = p
                                /\ comments[c].parentComment = NoParent})
    /\ \A d \in CommentIds :
          comments[d] # NoDoc
          => comments[d].repliesCount =
                Cardinality({c \in ExistingComments :
                                comments[c].parentComment = d})

\* ------------------------------------------------------------------------
\* startSession requests that interleave: authController.js startSession
\* ------------------------------------------------------------------------
DropAwaiting(i) ==
    SubSeq(awaiting, 1, i - 1) \o SubSeq(awaiting, i + 1, Len(awaiting))

\* startSession up to the answer of
\* UserSession.findOne({ user, status: 'active' })
startSessionFind(caller) ==
    /\ Len(awaiting) < MaxAwaiting
    /\ IF ~Protect(caller)
       THEN /\ resp' = [op |-> "startSession", status |-> 401, session |-> 0]
            /\ UNCHANGED awaiting
       ELSE /\ \E existing \in IF ActiveSessionsOf(caller) = {} THEN {0}
                               ELSE ActiveSessionsOf(caller) :
                  awaiting' = Append(awaiting,
                      [op |-> "startSession", user |-> caller,
                       existing |-> existing])
            /\ UNCHANGED resp
    /\ UNCHANGED <<users, userSchema, likeReqs, voiceCalls, sweeps,
                   loginHistory, regReqs, posts, nextPostId, follows,
                   comments, nextCommentId, tokens, notifs, fcmCalls,
                   failTasks, sessions, activities, now, prev>>

\* startSession from existingSession.endSession() to its answer
startSessionCreate(i) ==
    /\ i \in DOMAIN awaiting
    /\ awaiting[i].op = "startSession"
    /\ Len(sessions) < MaxSessions
    /\ Len(activities) < MaxActivities
    /\ LET r == awaiting[i]
           closed == IF r.existing = 0 THEN sessions
                     ELSE [sessions EXCEPT ![r.existing] = SessionEnd(@)]
           created == [user |-> r.user, status |-> "active",
                       startTime |-> now, lastActivityTime |-> now,
                       endTime |-> NoTime, totalDuration |-> 0,
                       totalScreens |-> 0]
           id == Len(sessions) + 1
       IN /\ sessions' = Append(closed, SessionUpdateActivity(created))
          /\ activities' = Append(activities,
                                  NewActivity(id, r.user, "login"))
          /\ resp' = [op |-> "startSession", status |-> 201, session |-> id]
    /\ awaiting' = DropAwaiting(i)
    /\ UNCHANGED <<users, userSchema, likeReqs, voiceCalls, sweeps,
                   loginHistory, regReqs, posts, nextPostId, follows,
                   comments, nextCommentId, tokens, notifs, fcmCalls,
                   failTasks, now, prev>>

InitSessionRace == EmptyDb /\ KnownUsers

NextSessionRace ==
    \/ \E c \in {"u1", "u2"} : startSessionFind(c)
    \/ \E i \in 1..MaxAwaiting : startSessionCreate(i)
    \/ \E c \in {"u1", "u2"}, sid \in 1..MaxSessions : endSession(c, sid)
    \/ Wait

SpecSessionRace == InitSessionRace /\ [][NextSessionRace]_vars

\* C28: in every state each user has at most one session with status
\* 'active'.
AtMostOneActiveSession ==
    \A u \in UserIds : Cardinality(ActiveSessionsOf(u)) <= 1

\* ------------------------------------------------------------------------
\* followUser requests that interleave: followController.js followUser,
\* Follow.js
\* ------------------------------------------------------------------------
\* followUser up to the answer of Follow.findOne({ follower, following })
followUserFind(caller, target) ==
    /\ Len(awaiting) < MaxAwaiting
    /\ IF ~Protect(caller)
       THEN /\ resp' = [op |-> "followUser", status |-> 401, a |-> caller,
                        b |-> target, message |-> "Not authorized"]
            /\ prev' = resp
            /\ UNCHANGED awaiting
       ELSE IF target = caller
       THEN /\ resp' = [op |-> "followUser", status |-> 400, a |-> caller,
                        b |-> target, message |-> "You cannot follow yourself"]
            /\ prev' = resp
            /\ UNCHANGED awaiting
       ELSE IF ExistingFollow(caller, target)
       THEN /\ resp' = [op |-> "followUser", status |-> 400, a |-> caller,
                        b |-> target, message |-> "Already following"]
            /\ prev' = resp
            /\ UNCHANGED awaiting
       ELSE /\ awaiting' = Append(awaiting,
                   [op |-> "followUser", a |-> caller, b |-> target])
            /\ UNCHANGED <<resp, prev>>
    /\ UNCHANGED <<users, loginHistory, regReqs, userSchema, likeReqs,
                   voiceCalls, sweeps, posts, nextPostId, follows, comments,
                   nextCommentId, tokens, notifs, fcmCalls, failTasks,
                   sessions, activities, now>>

\* followUser from Follow.create({ follower, following }) to its answer:
\* a pair the unique index refuses goes to the error middleware
followUserCreate(i) ==
    /\ i \in DOMAIN awaiting
    /\ awaiting[i].op = "followUser"
    /\ LET r == awaiting[i]
       IN IF ~FollowIndexAccepts(r.a, r.b)
          THEN /\ resp' = ErrorMiddleware("followUser")
               /\ UNCHANGED follows
          ELSE /\ follows' = [follows EXCEPT ![<<r.a, r.b>>] = @ + 1]
               /\ resp' = [op |-> "followUser", status |-> 200, a |-> r.a,
                           b |-> r.b,
                           message |-> "User followed successfully"]
    /\ prev' = resp
    /\ awaiting' = DropAwaiting(i)
    /\ UNCHANGED <<users, loginHistory, regReqs, userSchema, likeReqs,
                   voiceCalls, sweeps, posts, nextPostId, comments,
                   nextCommentId, tokens, notifs, fcmCalls, failTasks,
                   sessions, activities, now>>

InitFollowRace == EmptyDb /\ KnownUsers

NextFollowRace ==
    \/ \E a \in {"u1", "u2"}, b \in {"u1", "u2"} : followUserFind(a, b)
    \/ \E i \in 1..MaxAwaiting : followUserCreate(i)
    \/ \E a \in {"u1", "u2"}, b \in {"u1", "u2"} : unfollowUser(a, b)

SpecFollowRace == InitFollowRace /\ [][NextFollowRace]_vars

\* C29: in every state there is at most one Follow edge for each ordered
\* pair, and a followUser request that reaches Follow.create while the
\* edge exists ends in an error and creates no edge.
OneEdgePerPair ==
    /\ [](\A e \in Pairs : follows[e] <= 1)
    /\ [][\A i \in 1..MaxAwaiting :
            (followUserCreate(i)
                /\ follows[<<awaiting[i].a, awaiting[i].b>>] > 0)
            => /\ resp'.status >= 400
               /\ follows' = follows
       ]_vars

\* C29: of two followUser requests for one pair that both passed the
\* existence check, the first was answered with 200 and the second with an
\* error, and one edge is stored
LosingFollowEndedInError ==
    /\ prev.op = "followUser" /\ prev.status = 200
    /\ resp.op = "followUser" /\ resp.status = 500
    /\ follows[<<prev.a, prev.b>>] = 1
    /\ awaiting = <<>>


\* ------------------------------------------------------------------------
\* Paging through the feed: postController.js getPosts
\* ------------------------------------------------------------------------
FeedIds == 1..MaxFeedPosts

\* the accounts that wrote the posts of the paged feed
PagedAuthors == {"u1", "u2"}

\* a post that was created by its author and approved by a moderator
LivePost(author, id) ==
    [NewPost(author, "text", "public", NoPollInput)
        EXCEPT !.createdAt = id, !.status = "live"]

\* a collection of n live posts, oldest first
InitPaging ==
    /\ EmptyButPostsAndTokens
    /\ NoTokens
    /\ KnownUsers
    /\ \E n \in 0..MaxFeedPosts, author \in [FeedIds -> PagedAuthors] :
          /\ nextPostId = n + 1
          /\ posts = [p \in FeedIds |->
                         IF p <= n THEN LivePost(author[p], p) ELSE NoDoc]

NextPaging ==
    \/ \E a \in BOOLEAN : updateUserStatus("u3", "u2", a)
    \/ \E pg \in PageInputs, l \in LimitInputs : getPosts("u1", pg, l)

SpecPaging == InitPaging /\ [][NextPaging]_vars

\* the posts a reader of the feed is to see: live, active, author active
Readable(p) == FeedQuery(p) /\ PopulatedUser(p)

\* the readable posts that lie beyond the given page, newest first
BeyondPage(pageIn, limitIn) ==
    LET all == SeqOfSetDesc({p \in DOMAIN posts : FeedQuery(p)})
        last == FeedPage(pageIn) * FeedLimit(limitIn)
    IN SelectSeq(SubSeq(all, Min(Len(all), last) + 1, Len(all)), Readable)

\* C30: a page that reports hasMore = false has no readable post beyond it,
\* also when posts of an inactive author were dropped from the page, and a
\* page that reports hasMore = true is followed by a non-empty next page.
HasMoreTellsWhetherPostsRemain ==
    [][\A pg \in PageInputs, l \in LimitInputs :
          getPosts("u1", pg, l) =>
              /\ ~resp'.hasMore => BeyondPage(pg, l) = <<>>
              /\ resp'.hasMore =>
                     FeedPosts(NoUser, FeedPage(pg) + 1, l) # <<>>]_vars

====
